---- MODULE Spec2Model ----
(***************************************************************************)
(* Verification model of the openclaw-dingtalk channel adapter.            *)
(*                                                                         *)
(* Part A  DingTalkStreamClient (src/src/dingtalk_stream/stream.ts): the   *)
(*         reconnect loop, the WebSocket objects it creates, frame routing *)
(*         and the bot-message handler of monitorStream (src/src/inbound). *)
(* Part B  StreamClient (src/src/dingtalk_stream/client.ts): connect() and *)
(*         the polling reconnectLoop with its doubling delay.              *)
(* Part C  The three access-token caches: DingTalkStreamClient's           *)
(*         per-instance field, the ai-card module globals and the          *)
(*         session.ts map keyed by clientId.                               *)
(* Part D  Session keys: getSessionKey and clearSession of                 *)
(*         src/src/session.ts.                                             *)
(* Part E  AI cards: the functions of ai-card.ts, the AICardReplier and    *)
(*         handleDingTalkStreamingMessage (src/src/streaming-handler.ts).  *)
(* Part F  Monitor sessions: monitorStream and stopDingTalkMonitor of      *)
(*         src/src/inbound.ts with the module globals they share.          *)
(* Part G  handleDingTalkMessage (src/src/bot.ts) under the bot-message    *)
(*         handler: admission by policy, media, dispatch, replies, ack.    *)
(* Part H  dingtalkOutbound.sendText (outbound.ts): the choice between the *)
(*         reply URL and the OpenAPI push.                                 *)
(* Part I  extractRichTextDownloadCodes (src/src/richtext.ts), a pure      *)
(*         function over nested rich-text nodes.                           *)
(* Part J  deliver of createDingTalkReplyDispatcher (reply-dispatcher.ts): *)
(*         the chunks of one reply.                                        *)
(* Part K  dingtalkOutbound.sendMedia (outbound.ts).                       *)
(*                                                                         *)
(* One JavaScript macrotask (a socket event, a timer expiry, the           *)
(* completion of an HTTP call, a public call) is one action: everything    *)
(* the code runs up to its next real suspension point, promise             *)
(* continuations included, happens inside that action.                     *)
(***************************************************************************)
EXTENDS Integers, Sequences, FiniteSets, TLC

\* ------------------------------------------------------------- bounds
MaxLoops == 2        \* connect() calls on the one cached client
MaxSockets == 3      \* WebSocket objects created over a run
MaxFrames == 2       \* inbound frames received over a run
MaxCalls == 2        \* getAccessToken calls over a run
MaxTime == 3         \* the clock runs from 0 to MaxTime minutes
MaxSends == 2        \* sendDingtalkTextToConversation calls over a run
MaxClock == 3        \* the session clock runs from 0 to MaxClock
MaxKeyCalls == 3     \* getSessionKey calls over a run
MaxTextLen == 2      \* pieces of an inbound text
MaxChunks == 2       \* chunks the gateway streams for one message
MaxStarts == 2       \* start() calls on the AICardReplier
MaxOps == 3          \* streaming / finish / fail calls on the AICardReplier
MaxMonitors == 3     \* monitorStream calls over a run
MaxAllow == 2        \* entries of an allow list
MaxReplies == 2      \* replies the dispatcher delivers for one message
MaxBlocks == 3       \* top-level nodes of a rich-text payload
MaxPieces == 3       \* pieces of a reply text

VARIABLES
  \* Part A: DingTalkStreamClient fields
  stopping,            \* this.stopping
  ws,                  \* this.ws: a socket id, or NoSock for null
  keepaliveTimer,      \* the socket the keepalive interval pings, or NoSock
  callbackHandlerMap,  \* topics with a registered callback handler
  \* Part A: the environment of the client
  sockets,             \* readyState of every WebSocket object
  loops,               \* one record per connect() call: where its loop stands
  frames,              \* one record per inbound frame
  \* Part B: StreamClient fields and its two tasks
  scStopping,          \* this.stopping
  scWs,                \* readyState of this.ws, or "null"
  reconnectDelayMs,    \* this.reconnectDelayMs
  scConnect,           \* where the connect() call stands
  scLoop,              \* where reconnectLoop() stands
  scFrames,            \* one record per frame received by the StreamClient
  sessionWebhook,      \* sessionWebhookByConversation, per conversation id
  sends,               \* one record per sendDingtalkTextToConversation call
  \* Part C: the access-token caches
  now,                 \* the clock, in minutes
  streamToken,         \* DingTalkStreamClient.accessToken, one client per credential
  cardToken,           \* ai-card: accessToken and accessTokenExpiry
  sessionTokens,       \* session.ts: accessTokenCache, keyed by clientId
  calls,               \* one record per getAccessToken call
  cleared,             \* caches cleared since their last getAccessToken call
  \* Part D: session keys (src/src/session.ts)
  userSessions,        \* userSessions: identifier -> {lastActivity, sessionId}
  sessNow,             \* Date.now() as getSessionKey reads it
  keyCalls,            \* the getSessionKey calls made so far, oldest first
  \* Part E: AI cards
  handler,             \* one handleDingTalkStreamingMessage invocation
  replier,             \* one AICardReplier and the calls made on it
  \* Part F: monitor sessions (src/src/inbound.ts, src/src/client.ts)
  monitors,            \* one record per monitorStream call
  cachedClient,        \* client.ts: cachedClient with its cachedConfig
  currentClient,       \* inbound.ts: currentClient, a client id or NoClient
  cleanupIntervalId,   \* inbound.ts: cleanupIntervalId, a timer id or NoTimer
  timers,              \* the sweep intervals that are scheduled
  clientStopping,      \* DingTalkStreamClient.stopping of every client object
  \* Part G: one robot message under the bot-message handler
  bot,                 \* where handleDingTalkMessage stands, and what it did
  \* Part H: the outbound adapter
  outbound,            \* one dingtalkOutbound.sendText call
  \* Part I: one extractRichTextDownloadCodes call
  rich,                \* its argument and its return value
  \* Part J: one deliver call of the reply dispatcher
  delivery,            \* the reply, its chunks and the posts made for it
  \* Part K: one dingtalkOutbound.sendMedia call
  media                \* its arguments and the posts made for it

varsA == <<stopping, ws, keepaliveTimer, callbackHandlerMap, sockets, loops, frames>>
varsB == <<scStopping, scWs, reconnectDelayMs, scConnect, scLoop, scFrames, sessionWebhook,
           sends>>

varsC == <<now, streamToken, cardToken, sessionTokens, calls, cleared>>

varsD == <<userSessions, sessNow, keyCalls>>

varsE == <<handler, replier>>

varsF == <<monitors, cachedClient, currentClient, cleanupIntervalId, timers, clientStopping>>

varsG == <<bot>>

varsH == <<outbound>>

varsI == <<rich>>

varsJ == <<delivery>>

varsK == <<media>>

vars == <<varsA, varsB, varsC, varsD, varsE, varsF, varsG, varsH, varsI, varsJ, varsK>>

\* what the actions of one part leave alone
restA == <<varsB, varsC, varsD, varsE, varsF, varsG, varsH, varsI, varsJ, varsK>>
restB == <<varsA, varsC, varsD, varsE, varsF, varsG, varsH, varsI, varsJ, varsK>>
restC == <<varsA, varsB, varsD, varsE, varsF, varsG, varsH, varsI, varsJ, varsK>>
restD == <<varsA, varsB, varsC, varsE, varsF, varsG, varsH, varsI, varsJ, varsK>>
restE == <<varsA, varsB, varsC, varsF, varsG, varsH, varsI, varsJ, varsK>>
restF == <<varsA, varsB, varsC, varsD, varsE, varsG, varsH, varsI, varsJ, varsK>>
restG == <<varsA, varsB, varsC, varsD, varsE, varsF, varsH, varsI, varsJ, varsK>>
restH == <<varsA, varsB, varsC, varsD, varsE, varsF, varsG, varsI, varsJ, varsK>>
restI == <<varsA, varsB, varsC, varsD, varsE, varsF, varsG, varsH, varsJ, varsK>>
restJ == <<varsA, varsB, varsC, varsD, varsE, varsF, varsG, varsH, varsI, varsK>>
restK == <<varsA, varsB, varsC, varsD, varsE, varsF, varsG, varsH, varsI, varsJ>>

\* ------------------------------------------------------------- Part A
NoSock == 0
SockIds == 1..MaxSockets
LoopIds == 1..MaxLoops
FrameIds == 1..MaxFrames

TOPIC_ROBOT == "/v1.0/im/bot/messages/get"
TOPIC_DISCONNECT == "disconnect"
TOPIC_OTHER == "/v1.0/other"

STATUS_OK == 200
STATUS_SYSTEM_EXCEPTION == 500

\* readyState of a WebSocket object; NEW: the object is not constructed yet
ReadyStates == {"NEW", "CONNECTING", "OPEN", "CLOSING", "CLOSED"}

\* where a connect() call stands:
\*   idle       connect() not called
\*   handshake  awaiting openConnection()
\*   opening    awaiting the first promise of connectWebSocket (open or error)
\*   waitClose  awaiting the second promise of connectWebSocket (close)
\*   sleepErr   in the catch block, awaiting sleep(10_000); finally not yet run
\*   sleepOk    after finally, awaiting sleep(3_000)
\*   exited     connect() has returned
LoopPcs == {"idle", "handshake", "opening", "waitClose", "sleepErr", "sleepOk", "exited"}

IdleLoop == [pc |-> "idle", sock |-> NoSock]

\* ws.close() and ws.terminate(): a socket that is connecting or open starts
\* closing (its close event comes later); on any other socket nothing happens.
CloseSock(socks, s) ==
  IF s # NoSock /\ socks[s] \in {"CONNECTING", "OPEN"}
  THEN [socks EXCEPT ![s] = "CLOSING"]
  ELSE socks

\* The loop's test at the top of while(true): return when stopping, else start
\* the handshake request of openConnection().
LoopTopKeepsGoing(stop) == ~stop
LoopTop(l, stop) ==
  IF LoopTopKeepsGoing(stop)
  THEN [pc |-> "handshake", sock |-> NoSock]
  ELSE [pc |-> "exited", sock |-> NoSock]

\* monitorStream: createDingTalkClient returns the cached client, the
\* bot-message handler is registered for TOPIC_ROBOT and client.connect() is
\* called without being awaited.  connect(): preStart, stopping = false, then
\* the loop's first iteration up to the await of openConnection().  A monitor
\* session is started again only after the previous one was aborted, whose
\* cleanup() called disconnect().
Connect(l) ==
  /\ loops[l].pc = "idle"
  /\ \A k \in LoopIds : k < l => loops[k].pc # "idle"
  /\ l = 1 \/ stopping
  /\ stopping' = FALSE
  /\ callbackHandlerMap' = callbackHandlerMap \cup {TOPIC_ROBOT}
  /\ loops' = [loops EXCEPT ![l] = LoopTop(l, FALSE)]
  /\ UNCHANGED <<restA, ws, keepaliveTimer, sockets, frames>>

\* disconnect(): stopping = true, stopKeepalive, this.ws?.close().
Disconnect ==
  /\ stopping' = TRUE
  /\ keepaliveTimer' = NoSock
  /\ sockets' = CloseSock(sockets, ws)
  /\ UNCHANGED <<restA, ws, callbackHandlerMap, loops, frames>>

\* openConnection() answered with endpoint and ticket: connectWebSocket
\* constructs a WebSocket, stores it in this.ws and awaits open or error.
HandshakeOk(l) ==
  /\ loops[l].pc = "handshake"
  /\ \E s \in SockIds :
       /\ sockets[s] = "NEW"
       /\ \A t \in SockIds : t < s => sockets[t] # "NEW"
       /\ sockets' = [sockets EXCEPT ![s] = "CONNECTING"]
       /\ ws' = s
       /\ loops' = [loops EXCEPT ![l] = [pc |-> "opening", sock |-> s]]
  /\ UNCHANGED <<restA, stopping, keepaliveTimer, callbackHandlerMap, frames>>

\* openConnection() threw (fetch failed, non-2xx, or no endpoint/ticket): the
\* catch block logs and awaits sleep(10_000).
HandshakeFail(l) ==
  /\ loops[l].pc = "handshake"
  /\ loops' = [loops EXCEPT ![l] = [pc |-> "sleepErr", sock |-> NoSock]]
  /\ UNCHANGED <<restA, stopping, ws, keepaliveTimer, callbackHandlerMap, sockets, frames>>

\* The finally block of the loop body: stopKeepalive(), this.ws?.terminate(),
\* this.ws = null.  It acts on whatever this.ws holds when it runs.
FinallySockets(socks, w) == CloseSock(socks, w)

\* The open event of socket s.  The loop that constructed s calls
\* startKeepalive(s) and resolves; its continuation reads this.ws and either
\* returns at once (this.ws is null: finally runs, then sleep(3_000)) or waits
\* for the close event of the socket this.ws holds.
SockOpen(s) ==
  /\ sockets[s] = "CONNECTING"
  /\ LET opener == {l \in LoopIds : loops[l].pc = "opening" /\ loops[l].sock = s}
         socks1 == [sockets EXCEPT ![s] = "OPEN"]
     IN IF opener = {}
        THEN /\ sockets' = socks1
             /\ UNCHANGED <<ws, keepaliveTimer, loops>>
        ELSE IF ws = NoSock
        THEN /\ sockets' = socks1
             /\ keepaliveTimer' = NoSock
             /\ ws' = NoSock
             /\ loops' = [l \in LoopIds |->
                            IF l \in opener THEN [pc |-> "sleepOk", sock |-> NoSock]
                            ELSE loops[l]]
        ELSE /\ sockets' = socks1
             /\ keepaliveTimer' = s
             /\ ws' = ws
             /\ loops' = [l \in LoopIds |->
                            IF l \in opener THEN [pc |-> "waitClose", sock |-> ws]
                            ELSE loops[l]]
  /\ UNCHANGED <<restA, stopping, callbackHandlerMap, frames>>

\* Socket s reaches CLOSED and its error (when it never opened) and close
\* events are delivered: a loop awaiting open/error on s is rejected into the
\* catch block (sleep(10_000)); a loop awaiting the close of s resumes, runs
\* finally and awaits sleep(3_000).
SockGone(s) ==
  LET rejected == {l \in LoopIds : loops[l].pc = "opening" /\ loops[l].sock = s}
      resumed == {l \in LoopIds : loops[l].pc = "waitClose" /\ loops[l].sock = s}
      socks1 == [sockets EXCEPT ![s] = "CLOSED"]
  IN /\ loops' = [l \in LoopIds |->
                    IF l \in rejected THEN [pc |-> "sleepErr", sock |-> NoSock]
                    ELSE IF l \in resumed THEN [pc |-> "sleepOk", sock |-> NoSock]
                    ELSE loops[l]]
     /\ IF resumed # {}
        THEN /\ keepaliveTimer' = NoSock
             /\ sockets' = FinallySockets(socks1, ws)
             /\ ws' = NoSock
        ELSE /\ sockets' = socks1
             /\ UNCHANGED <<ws, keepaliveTimer>>
     /\ UNCHANGED <<restA, stopping, callbackHandlerMap, frames>>

\* The WebSocket handshake of s fails (connection refused, non-101 answer).
SockFail(s) == sockets[s] = "CONNECTING" /\ SockGone(s)

\* A close()/terminate() started earlier completes.
SockClosed(s) == sockets[s] = "CLOSING" /\ SockGone(s)

\* The gateway closes an open socket, or the network drops it.
ServerClose(s) == sockets[s] = "OPEN" /\ SockGone(s)

\* sleep(10_000) of the catch block expires: continue runs finally, then the
\* loop's top.
SleepErrDone(l) ==
  /\ loops[l].pc = "sleepErr"
  /\ keepaliveTimer' = NoSock
  /\ sockets' = FinallySockets(sockets, ws)
  /\ ws' = NoSock
  /\ loops' = [loops EXCEPT ![l] = LoopTop(l, stopping)]
  /\ UNCHANGED <<restA, stopping, callbackHandlerMap, frames>>

\* sleep(3_000) after a closed connection expires: the loop's top.
SleepOkDone(l) ==
  /\ loops[l].pc = "sleepOk"
  /\ loops' = [loops EXCEPT ![l] = LoopTop(l, stopping)]
  /\ UNCHANGED <<restA, stopping, ws, keepaliveTimer, callbackHandlerMap, sockets, frames>>

\* ------------------------------------------------ Part A: frame routing
\* The frames the gateway may send: type, topic, whether headers.messageId is
\* non-empty, and whether the frame text and its data field parse as JSON.
FrameKinds ==
  [type : {"SYSTEM"}, topic : {TOPIC_DISCONNECT, TOPIC_OTHER}, mid : BOOLEAN,
   json : {TRUE}, dataJson : {TRUE}]
  \cup [type : {"CALLBACK"}, topic : {TOPIC_ROBOT}, mid : BOOLEAN,
        json : {TRUE}, dataJson : BOOLEAN]
  \cup [type : {"CALLBACK"}, topic : {TOPIC_OTHER}, mid : BOOLEAN,
        json : {TRUE}, dataJson : {TRUE}]
  \cup [type : {"EVENT", "UNKNOWN"}, topic : {TOPIC_OTHER}, mid : BOOLEAN,
        json : {TRUE}, dataJson : {TRUE}]
  \cup [type : {"UNKNOWN"}, topic : {TOPIC_OTHER}, mid : {FALSE},
        json : {FALSE}, dataJson : {TRUE}]

\* A frame not received yet.
NoFrame ==
  [st |-> "none", kind |-> [type |-> "UNKNOWN", topic |-> TOPIC_OTHER, mid |-> FALSE,
                            json |-> FALSE, dataJson |-> TRUE],
   sock |-> NoSock, invoked |-> FALSE, acks |-> <<>>]

\* sendJson: the frame is written only when this.ws is set and OPEN.
SendJsonWrites(w, socks) == w # NoSock /\ socks[w] = "OPEN"

\* socketCallBackResponse(messageId, {success}): nothing for an empty
\* messageId; else an ack with code 200 or 500 goes through sendJson.  The
\* result is the list of acks written for the frame so far.
SocketCallBackResponse(acks, hasMid, success, by, w, socks) ==
  IF hasMid /\ SendJsonWrites(w, socks)
  THEN Append(acks, [code |-> IF success THEN STATUS_OK ELSE STATUS_SYSTEM_EXCEPTION,
                     by |-> by, sock |-> w])
  ELSE acks

\* routeMessage for a CALLBACK frame whose topic has no handler.
RouteUnknownCallback(acks, hasMid, w, socks) == acks

\* a router that hands text it cannot parse to a handler
RouteUnparsedInvokes(f0) == [f0 EXCEPT !.st = "done", !.invoked = TRUE]

\* A raw message that is no JSON.  DingTalkStreamClient: safeJsonParse gives
\* null, routeMessage reads "" for type, topic and messageId, matches no
\* branch and skips the ack of its last line.  StreamClient: JSON.parse throws
\* and handleRawMessage returns.  The frame is done with nothing written.
RouteUnparsed(f0) == [f0 EXCEPT !.st = "done"]

\* The message event of socket s: backgroundTask parses the text and
\* routeMessage runs up to its first suspension.
\*   text that is no JSON: safeJsonParse gives null, type and messageId are "".
\*   SYSTEM: topic "disconnect" closes this.ws; then the router acks.
\*   CALLBACK: the registered handler is invoked (it acks at once with failure
\*     when JSON.parse(res.data) throws, else awaits handleDingTalkMessage);
\*     without a handler the router only logs a warning.
\*   EVENT and any other type: the router acks.
Receive(m, s, k) ==
  /\ frames[m].st = "none"
  /\ \A j \in FrameIds : j < m => frames[j].st # "none"
  /\ sockets[s] = "OPEN"
  /\ LET f0 == [NoFrame EXCEPT !.kind = k, !.sock = s]
     IN IF ~k.json
        THEN /\ frames' = [frames EXCEPT ![m] = RouteUnparsed(f0)]
             /\ UNCHANGED sockets
        ELSE IF k.type = "SYSTEM"
        THEN LET socks1 == IF k.topic = TOPIC_DISCONNECT
                           THEN CloseSock(sockets, ws) ELSE sockets
             IN /\ sockets' = socks1
                /\ frames' = [frames EXCEPT ![m] =
                     [f0 EXCEPT !.st = "done",
                        !.acks = SocketCallBackResponse(<<>>, k.mid, TRUE, "router", ws, socks1)]]
        ELSE IF k.type = "CALLBACK"
        THEN /\ UNCHANGED sockets
             /\ IF k.topic \in callbackHandlerMap
                THEN IF k.dataJson
                     THEN frames' = [frames EXCEPT ![m] =
                            [f0 EXCEPT !.st = "handling", !.invoked = TRUE]]
                     ELSE frames' = [frames EXCEPT ![m] =
                            [f0 EXCEPT !.st = "done", !.invoked = TRUE,
                               !.acks = SocketCallBackResponse(<<>>, k.mid, FALSE, "handler", ws, sockets)]]
                ELSE frames' = [frames EXCEPT ![m] =
                       [f0 EXCEPT !.st = "done",
                          !.acks = RouteUnknownCallback(<<>>, k.mid, ws, sockets)]]
        ELSE /\ UNCHANGED sockets
             /\ frames' = [frames EXCEPT ![m] =
                  [f0 EXCEPT !.st = "done",
                     !.acks = SocketCallBackResponse(<<>>, k.mid, TRUE, "router", ws, sockets)]]
  /\ UNCHANGED <<restA, stopping, ws, keepaliveTimer, callbackHandlerMap, loops>>

\* a handler that acks success before it handles and failure on top when
\* handling throws
HandlerAcksBoth(acks, k, ok, w, socks) ==
  IF ok
  THEN SocketCallBackResponse(acks, k.mid, TRUE, "handler", w, socks)
  ELSE SocketCallBackResponse(
         SocketCallBackResponse(acks, k.mid, TRUE, "handler", w, socks),
         k.mid, FALSE, "handler", w, socks)

\* What the awaited handler of a CALLBACK frame writes when it settles.  The
\* bot-message handler of monitorStream acks success when handleDingTalkMessage
\* returned and failure when it threw.  A handler registered for another topic
\* acks by itself before it returns ("handler is expected to ack"); when it
\* throws, the exception reaches the catch of backgroundTask, which logs it.
HandlerAcks(acks, k, ok, w, socks) ==
  IF k.topic = TOPIC_ROBOT
  THEN SocketCallBackResponse(acks, k.mid, ok, "handler", w, socks)
  ELSE IF ok
       THEN SocketCallBackResponse(acks, k.mid, TRUE, "handler", w, socks)
       ELSE acks

\* The awaited handler of frame m settles: it returned (ok) or threw.
HandlerDone(m, ok) ==
  /\ frames[m].st = "handling"
  /\ frames' = [frames EXCEPT ![m] =
       [@ EXCEPT !.st = "done",
          !.acks = HandlerAcks(@, frames[m].kind, ok, ws, sockets)]]
  /\ UNCHANGED <<restA, stopping, ws, keepaliveTimer, callbackHandlerMap, sockets, loops>>

\* registerCallbackListener(topic, handler) for a topic other than the robot
\* topic, which monitorStream registers itself.
RegisterCallbackListener(topic) ==
  /\ topic \notin callbackHandlerMap
  /\ callbackHandlerMap' = callbackHandlerMap \cup {topic}
  /\ UNCHANGED <<restA, stopping, ws, keepaliveTimer, sockets, loops, frames>>

\* ------------------------------------------------------------- Part B
\* StreamClient (dingtalk_stream/client.ts).  connect() awaits one
\* connectOnce() and then starts reconnectLoop() in the background;
\* reconnectLoop polls this.ws every second and calls connectOnce() again
\* when the socket is gone, backing off after a failure.
INITIAL_DELAY_MS == 3000
MAX_DELAY_MS == 30000

\* scConnect: idle, handshake (awaiting openConnection), opening (awaiting
\*   open or error), resolved, rejected
\* scLoop:    idle, poll (awaiting the 1 s timer), handshake, opening,
\*   backoff (awaiting the reconnectDelayMs timer), exited

Min(a, b) == IF a < b THEN a ELSE b

\* a backoff that doubles without a cap
NextDelayUncapped(d) == d * 2

\* the delay after a failed reconnect attempt
NextDelay(d) == Min(d * 2, MAX_DELAY_MS)

\* The top of reconnectLoop's while: leave when stopping; call connectOnce()
\* when this.ws is null or CLOSED; else fall through to the 1 s timer.
LoopStep(stop, sock) ==
  IF stop THEN "exited"
  ELSE IF sock \in {"null", "CLOSED"} THEN "handshake"
  ELSE "poll"

\* connect(): stopping = false, then connectOnce() up to the await of
\* openConnection().
SCConnect ==
  /\ scConnect = "idle"
  /\ scStopping' = FALSE
  /\ scConnect' = "handshake"
  /\ UNCHANGED <<restB, sends, scFrames, sessionWebhook, scWs, reconnectDelayMs, scLoop>>

\* close(): stopping = true, this.ws?.close().
SCClose ==
  /\ scConnect # "idle"
  /\ scStopping' = TRUE
  /\ scWs' = IF scWs \in {"CONNECTING", "OPEN"} THEN "CLOSING" ELSE scWs
  /\ UNCHANGED <<restB, sends, scFrames, sessionWebhook, reconnectDelayMs, scConnect, scLoop>>

\* openConnection() answered with endpoint and ticket: connectOnce constructs
\* the WebSocket, stores it in this.ws and awaits open or error.
SCHandshakeOk ==
  /\ scConnect = "handshake" \/ scLoop = "handshake"
  /\ scWs' = "CONNECTING"
  /\ scConnect' = IF scConnect = "handshake" THEN "opening" ELSE scConnect
  /\ scLoop' = IF scLoop = "handshake" THEN "opening" ELSE scLoop
  /\ UNCHANGED <<restB, sends, scFrames, sessionWebhook, scStopping, reconnectDelayMs>>

\* what connect() does when its connectOnce() throws
ConnectOnFailure == "rejected"

\* openConnection() threw (non-2xx answer, or no endpoint/ticket).  In
\* connect() the error leaves connect(), and reconnectLoop is not started; in
\* reconnectLoop it is swallowed and the backoff timer is awaited.
SCHandshakeFail ==
  /\ scConnect = "handshake" \/ scLoop = "handshake"
  /\ scConnect' = IF scConnect = "handshake" THEN ConnectOnFailure ELSE scConnect
  /\ scLoop' = IF scLoop = "handshake" THEN "backoff" ELSE scLoop
  /\ UNCHANGED <<restB, sends, scFrames, sessionWebhook, scStopping, scWs, reconnectDelayMs>>

\* The open event: connectOnce resolves.  connect() then starts
\* reconnectLoop, which runs to its first timer; reconnectLoop resets the
\* delay and awaits the 1 s timer.
SCSockOpen ==
  /\ scWs = "CONNECTING"
  /\ scConnect = "opening" \/ scLoop = "opening"
  /\ scWs' = "OPEN"
  /\ IF scConnect = "opening"
     THEN /\ scConnect' = "resolved"
          /\ scLoop' = IF scStopping THEN "exited" ELSE "poll"
          /\ UNCHANGED reconnectDelayMs
     ELSE /\ scLoop' = "poll"
          /\ reconnectDelayMs' = INITIAL_DELAY_MS
          /\ UNCHANGED scConnect
  /\ UNCHANGED <<restB, sends, scFrames, sessionWebhook, scStopping>>

\* The error event before the socket opened (the connection failed, or
\* close() aborted it): onError closes the socket and rejects connectOnce.
SCSockError ==
  /\ scWs \in {"CONNECTING", "CLOSING"}
  /\ scConnect = "opening" \/ scLoop = "opening"
  /\ scWs' = "CLOSED"
  /\ scConnect' = IF scConnect = "opening" THEN ConnectOnFailure ELSE scConnect
  /\ scLoop' = IF scLoop = "opening" THEN "backoff" ELSE scLoop
  /\ UNCHANGED <<restB, sends, scFrames, sessionWebhook, scStopping, reconnectDelayMs>>

\* An open socket is closed by the gateway or dropped by the network, or a
\* close() started on an open socket completes.
SCSockClosed ==
  /\ scWs \in {"OPEN", "CLOSING"}
  /\ scConnect # "opening" /\ scLoop # "opening"
  /\ scWs' = "CLOSED"
  /\ UNCHANGED <<restB, sends, scFrames, sessionWebhook, scStopping, reconnectDelayMs,
                 scConnect, scLoop>>

\* The 1 s timer at the bottom of reconnectLoop's while fires.
SCPollTick ==
  /\ scLoop = "poll"
  /\ scLoop' = LoopStep(scStopping, scWs)
  /\ UNCHANGED <<restB, sends, scFrames, sessionWebhook, scStopping, scWs, reconnectDelayMs,
                 scConnect>>

\* The backoff timer fires: the delay doubles up to the cap, then the 1 s
\* timer is awaited.
SCBackoffDone ==
  /\ scLoop = "backoff"
  /\ reconnectDelayMs' = NextDelay(reconnectDelayMs)
  /\ scLoop' = "poll"
  /\ UNCHANGED <<restB, sends, scFrames, sessionWebhook, scStopping, scWs, scConnect>>

\* Frames the gateway may send to the StreamClient.  For a robot message the
\* payload is text that is no JSON ("badjson"), a message without sender,
\* conversation or sessionWebhook ("empty"), a message of conversation `conv`
\* with reply handle `hook` but no text, such as a picture ("notext"), or a
\* text message of conversation `conv` carrying reply handle `hook` ("text").
NoHook == 0
Hooks == {1, 2}
Convs == {"cidA", "cidB"}
SCFrameKinds ==
  [type : {"CALLBACK"}, topic : {TOPIC_ROBOT}, mid : BOOLEAN, json : {TRUE},
   payload : {"badjson", "empty"}, conv : {"cidA"}, hook : {NoHook}]
  \cup [type : {"CALLBACK"}, topic : {TOPIC_ROBOT}, mid : BOOLEAN, json : {TRUE},
        payload : {"text", "notext"}, conv : Convs, hook : Hooks]
  \cup [type : {"CALLBACK", "SYSTEM", "EVENT"}, topic : {TOPIC_OTHER}, mid : BOOLEAN,
        json : {TRUE}, payload : {"empty"}, conv : {"cidA"}, hook : {NoHook}]
  \cup [type : {"SYSTEM"}, topic : {TOPIC_DISCONNECT}, mid : BOOLEAN, json : {TRUE},
        payload : {"empty"}, conv : {"cidA"}, hook : {NoHook}]
  \cup [type : {"EVENT"}, topic : {TOPIC_OTHER}, mid : {FALSE}, json : {FALSE},
        payload : {"empty"}, conv : {"cidA"}, hook : {NoHook}]

NoSCFrame ==
  [st |-> "none",
   kind |-> [type |-> "EVENT", topic |-> TOPIC_OTHER, mid |-> FALSE, json |-> FALSE,
             payload |-> "empty", conv |-> "cidA", hook |-> NoHook],
   invoked |-> FALSE, acks |-> <<>>]

\* StreamClient.socketCallBackResponse through sendJson: written only when
\* this.ws is OPEN.
SCAck(acks, success, by, sock) ==
  IF sock = "OPEN"
  THEN Append(acks, [code |-> IF success THEN STATUS_OK ELSE STATUS_SYSTEM_EXCEPTION,
                     by |-> by])
  ELSE acks

\* the handler's `if (messageId)` guard around every ack
SCHandlerAck(acks, hasMid, success, sock) ==
  IF hasMid THEN SCAck(acks, success, "handler", sock) ELSE acks

\* The message event: handleRawMessage up to its first suspension.
\*   text that is no JSON: dropped.
\*   CALLBACK with a registered callback (TOPIC_ROBOT, registered by
\*     monitorDingtalkStreamProvider before connect()): the callback runs; it
\*     acks failure when the payload is no JSON, acks success and returns for a
\*     message that extractInboundFromStreamPayload rejects or that has no
\*     text, else records the sessionWebhook of its conversation and awaits
\*     handleDingtalkInbound.
\*   CALLBACK without a callback: nothing.
\*   any other type: the router acks success when messageId is non-empty.
SCReceive(m, k) ==
  /\ scFrames[m].st = "none"
  /\ \A j \in FrameIds : j < m => scFrames[j].st # "none"
  /\ scWs = "OPEN"
  /\ LET f0 == [NoSCFrame EXCEPT !.kind = k]
     IN IF ~k.json
        THEN /\ scFrames' = [scFrames EXCEPT ![m] = RouteUnparsed(f0)]
             /\ UNCHANGED sessionWebhook
        ELSE IF k.type = "CALLBACK"
        THEN IF k.topic = TOPIC_ROBOT
             THEN IF k.payload = "badjson"
                  THEN /\ scFrames' = [scFrames EXCEPT ![m] =
                            [f0 EXCEPT !.st = "done", !.invoked = TRUE,
                               !.acks = SCHandlerAck(<<>>, k.mid, FALSE, scWs)]]
                       /\ UNCHANGED sessionWebhook
                  ELSE IF k.payload \in {"empty", "notext"}
                  THEN /\ scFrames' = [scFrames EXCEPT ![m] =
                            [f0 EXCEPT !.st = "done", !.invoked = TRUE,
                               !.acks = SCHandlerAck(<<>>, k.mid, TRUE, scWs)]]
                       /\ UNCHANGED sessionWebhook
                  ELSE /\ scFrames' = [scFrames EXCEPT ![m] =
                            [f0 EXCEPT !.st = "handling", !.invoked = TRUE]]
                       /\ sessionWebhook' = [sessionWebhook EXCEPT ![k.conv] = k.hook]
             ELSE /\ scFrames' = [scFrames EXCEPT ![m] = [f0 EXCEPT !.st = "done"]]
                  /\ UNCHANGED sessionWebhook
        ELSE /\ scFrames' = [scFrames EXCEPT ![m] =
                  [f0 EXCEPT !.st = "done",
                     !.acks = IF k.mid THEN SCAck(<<>>, TRUE, "router", scWs) ELSE <<>>]]
             /\ UNCHANGED sessionWebhook
  /\ UNCHANGED <<restB, sends, scStopping, scWs, reconnectDelayMs, scConnect, scLoop>>

\* handleDingtalkInbound settles: the callback acks success when it returned
\* and failure when it threw.
SCHandlerDone(m, ok) ==
  /\ scFrames[m].st = "handling"
  /\ scFrames' = [scFrames EXCEPT ![m] =
       [@ EXCEPT !.st = "done",
          !.acks = SCHandlerAck(@, scFrames[m].kind.mid, ok, scWs)]]
  /\ UNCHANGED <<restB, sends, scStopping, scWs, reconnectDelayMs, scConnect, scLoop,
                 sessionWebhook>>


\* ---- proactive sends (src/src/richtext.ts)
SendIds == 1..MaxSends

\* a lookup that ignores the conversation id when its own entry is missing
GetSessionWebhookAnyConv(conv) ==
  IF sessionWebhook[conv] # NoHook THEN sessionWebhook[conv]
  ELSE IF \E cv \in Convs : sessionWebhook[cv] # NoHook
       THEN sessionWebhook[CHOOSE cv \in Convs : sessionWebhook[cv] # NoHook]
       ELSE NoHook

\* getSessionWebhook: the cached handle of the conversation, or null
GetSessionWebhook(conv) == sessionWebhook[conv]

\* the reply handle that came with the most recent robot message of the
\* conversation (frames are numbered in the order they arrive)
RobotFramesOf(conv) ==
  {m \in FrameIds : /\ scFrames[m].st # "none"
                    /\ scFrames[m].kind.topic = TOPIC_ROBOT
                    /\ scFrames[m].kind.conv = conv
                    /\ scFrames[m].kind.hook # NoHook}
LatestHandle(conv) ==
  IF RobotFramesOf(conv) = {} THEN NoHook
  ELSE scFrames[CHOOSE m \in RobotFramesOf(conv) :
                  \A j \in RobotFramesOf(conv) : j <= m].kind.hook

\* A send: st is none, token (getDingTalkAccessToken awaited), posting (the
\* POST awaited) or done; hook is the handle read when the call began, latest
\* the handle of the newest inbound message at that moment, posted the URL the
\* POST went to, http the HTTP requests the call issued, result what the call
\* returned ("ok" for {ok:true}, "fail" for {ok:false, error}, "threw").
NoSend ==
  [st |-> "none", conv |-> "cidA", hook |-> NoHook, latest |-> NoHook,
   posted |-> NoHook, http |-> 0, result |-> "none"]

\* sendDingtalkTextToConversation begins (the account is configured): without
\* a cached handle it returns {ok:false, error}; with one,
\* sendDingtalkTextViaSessionWebhook awaits the access token.
SendToConversation(i, conv) ==
  /\ sends[i].st = "none"
  /\ \A j \in SendIds : j < i => sends[j].st # "none"
  /\ LET h == GetSessionWebhook(conv)
         s0 == [NoSend EXCEPT !.conv = conv, !.hook = h, !.latest = LatestHandle(conv)]
     IN sends' = [sends EXCEPT ![i] =
          IF h = NoHook
          THEN [s0 EXCEPT !.st = "done", !.result = "fail"]
          ELSE [s0 EXCEPT !.st = "token"]]
  /\ UNCHANGED <<restB, scStopping, scWs, reconnectDelayMs, scConnect, scLoop, scFrames,
                 sessionWebhook>>

\* getDingTalkAccessToken settles: with a token the text is POSTed to the
\* handle the call read at its start; a rejection is caught and returned.
SendTokenDone(i, ok) ==
  /\ sends[i].st = "token"
  /\ sends' = [sends EXCEPT ![i] =
       IF ok
       THEN [@ EXCEPT !.st = "posting", !.posted = sends[i].hook, !.http = @ + 1]
       ELSE [@ EXCEPT !.st = "done", !.result = "fail"]]
  /\ UNCHANGED <<restB, scStopping, scWs, reconnectDelayMs, scConnect, scLoop, scFrames,
                 sessionWebhook>>

\* the POST settles: 2xx gives {ok:true}; any other status or a rejection
\* gives {ok:false, error}
SendPostDone(i, ok) ==
  /\ sends[i].st = "posting"
  /\ sends' = [sends EXCEPT ![i] =
       [@ EXCEPT !.st = "done", !.result = IF ok THEN "ok" ELSE "fail"]]
  /\ UNCHANGED <<restB, scStopping, scWs, reconnectDelayMs, scConnect, scLoop, scFrames,
                 sessionWebhook>>

NextSend ==
  \/ \E i \in SendIds, cv \in Convs : SendToConversation(i, cv)
  \/ \E i \in SendIds, ok \in BOOLEAN : SendTokenDone(i, ok)
  \/ \E i \in SendIds, ok \in BOOLEAN : SendPostDone(i, ok)

InitB ==
  /\ scFrames = [m \in FrameIds |-> NoSCFrame]
  /\ sessionWebhook = [cv \in Convs |-> NoHook]
  /\ sends = [i \in SendIds |-> NoSend]
  /\ scStopping = FALSE
  /\ scWs = "null"
  /\ reconnectDelayMs = INITIAL_DELAY_MS
  /\ scConnect = "idle"
  /\ scLoop = "idle"

NextSC ==
  \/ SCConnect
  \/ SCClose
  \/ SCHandshakeOk
  \/ SCHandshakeFail
  \/ SCSockOpen
  \/ SCSockError
  \/ SCSockClosed
  \/ SCPollTick
  \/ SCBackoffDone
  \/ \E m \in FrameIds, k \in SCFrameKinds : SCReceive(m, k)
  \/ \E m \in FrameIds, ok \in BOOLEAN : SCHandlerDone(m, ok)

\* the connection lifecycle of StreamClient with SYSTEM frames only
NextBackoff ==
  \/ SCConnect
  \/ SCClose
  \/ SCHandshakeOk
  \/ SCHandshakeFail
  \/ SCSockOpen
  \/ SCSockError
  \/ SCSockClosed
  \/ SCPollTick
  \/ SCBackoffDone
  \/ \E m \in FrameIds, k \in {x \in SCFrameKinds : x.type = "SYSTEM"} : SCReceive(m, k)

\* Timers fire and pending I/O completes.  Nothing obliges the gateway to
\* close an open socket, but a close() that was started completes.
FairnessSC ==
  /\ WF_vars(SCHandshakeOk \/ SCHandshakeFail)
  /\ WF_vars(SCSockOpen \/ SCSockError)
  /\ WF_vars(scWs = "CLOSING" /\ SCSockClosed)
  /\ WF_vars(SCPollTick)
  /\ WF_vars(SCBackoffDone)

\* ------------------------------------------------------------- Part C
\* Three caches hold the bearer token.  Time is counted in minutes: the
\* 5 * 60 s buffer of DingTalkStreamClient is 5, the 60_000 ms slack of the
\* ai-card and session.ts caches is 1, and the exchange's expireIn (seconds) is
\* given in minutes.
STREAM_BUFFER == 5
CACHE_SLACK == 1
ExpireIns == {7, 8}
Creds == {"A", "B"}
Impls == {"stream", "aicard", "session"}
CallIds == 1..MaxCalls

NoToken == [cred |-> "none", exp |-> 0]
NaN == -1
\* an empty cache slot: accessToken null, expiry 0
NoEntry == [tok |-> NoToken, expiry |-> 0]
\* A call: st is none, fetching, returned or threw; start is Date.now() read
\* at the head of the call (kept while the exchange is awaited); exch counts its
\* exchange requests; got is the credential the returned token was issued for
\* ("none": no token value) and left the validity that token has left on the
\* server when it is returned.
NoCall ==
  [st |-> "none", impl |-> "stream", cred |-> "A", start |-> 0, exch |-> 0,
   got |-> "none", left |-> 0, afterClear |-> FALSE]

\* the call record once token tk is returned at time t
Gave(call, tk, t) ==
  [call EXCEPT !.st = "returned", !.start = 0, !.got = tk.cred,
               !.left = IF tk = NoToken THEN 0 ELSE tk.exp - t]
Threw(call) == [call EXCEPT !.st = "threw", !.start = 0]

\* x > y as JavaScript compares numbers: false when x is NaN
Greater(x, y) == x # NaN /\ x > y

\* the cache slot a call with credential cr reads and writes
Entry(impl, cr) ==
  IF impl = "stream" THEN streamToken[cr]
  ELSE IF impl = "aicard" THEN cardToken
  ELSE sessionTokens[cr]

\* the identity of that slot
SlotOf(impl, cr) == IF impl = "aicard" THEN <<impl, "any">> ELSE <<impl, cr>>

\* The test at the head of getAccessToken: is the cached token returned?
\*   stream:  this.accessToken && now < expireTime
\*   aicard:  accessToken && accessTokenExpiry > now + 60_000
\*   session: cached && cached.expiryMs > now + 60_000
StreamHit(e, t) == e.tok # NoToken /\ t < e.expiry
SlackHit(e, t) == e.tok # NoToken /\ Greater(e.expiry, t + CACHE_SLACK)
CacheHit(impl, e, t) == IF impl = "stream" THEN StreamHit(e, t) ELSE SlackHit(e, t)

\* A getAccessToken call begins: the cached token is returned, or the
\* exchange request is sent and awaited.
GetAccessToken(c, impl, cr) ==
  /\ calls[c].st = "none"
  /\ \A j \in CallIds : j < c => calls[j].st # "none"
  /\ LET e == Entry(impl, cr)
         c0 == [NoCall EXCEPT !.impl = impl, !.cred = cr, !.start = now,
                              !.afterClear = SlotOf(impl, cr) \in cleared]
     IN calls' = [calls EXCEPT ![c] =
          IF CacheHit(impl, e, now)
          THEN Gave(c0, e.tok, now)
          ELSE [c0 EXCEPT !.st = "fetching", !.exch = 1]]
  /\ cleared' = cleared \ {SlotOf(impl, cr)}
  /\ UNCHANGED <<restC, now, streamToken, cardToken, sessionTokens>>

\* The exchange answers.  outcome is "ok", "http_error" (non-2xx), "no_token"
\* (a 2xx body without accessToken) or "no_expiry" (a 2xx body without
\* expireIn); ei is the lifetime the server gave the token.
\*   stream:  throws on all but "ok"; caches expireTime = now + expireIn - 5 min,
\*            with now read after the answer.
\*   aicard:  throws on "http_error"; else stores data.accessToken and
\*            now + expireIn * 1000 with now read when the call began, and
\*            returns data.accessToken (undefined for "no_token", and the
\*            expiry is NaN for "no_expiry").
\*   session: axios throws on "http_error"; throws on "no_token"; else stores
\*            the token with now + expireIn * 1000 (expireIn 0 for "no_expiry"),
\*            now read when the call began.
ExchangeDone(c, outcome, ei) ==
  /\ calls[c].st = "fetching"
  /\ LET impl == calls[c].impl
         cr == calls[c].cred
         token == [cred |-> cr, exp |-> now + ei]
         threw == [calls EXCEPT ![c] = Threw(@)]
         gave(tk) == [calls EXCEPT ![c] = Gave(@, tk, now)]
     IN IF impl = "stream"
        THEN /\ IF outcome = "ok"
                THEN /\ streamToken' = [streamToken EXCEPT
                          ![cr] = [tok |-> token, expiry |-> now + ei - STREAM_BUFFER]]
                     /\ calls' = gave(token)
                ELSE /\ calls' = threw
                     /\ UNCHANGED streamToken
             /\ UNCHANGED <<cardToken, sessionTokens>>
        ELSE IF impl = "aicard"
        THEN /\ IF outcome = "http_error"
                THEN /\ calls' = threw
                     /\ UNCHANGED cardToken
                ELSE LET tk == IF outcome = "no_token" THEN NoToken ELSE token
                         ex == IF outcome = "no_expiry" THEN NaN ELSE calls[c].start + ei
                     IN /\ cardToken' = [tok |-> tk, expiry |-> ex]
                        /\ calls' = gave(tk)
             /\ UNCHANGED <<streamToken, sessionTokens>>
        ELSE /\ IF outcome \in {"http_error", "no_token"}
                THEN /\ calls' = threw
                     /\ UNCHANGED sessionTokens
                ELSE LET ex == calls[c].start + (IF outcome = "no_expiry" THEN 0 ELSE ei)
                     IN /\ sessionTokens' = [sessionTokens EXCEPT
                               ![cr] = [tok |-> token, expiry |-> ex]]
                        /\ calls' = gave(token)
             /\ UNCHANGED <<streamToken, cardToken>>
  /\ UNCHANGED <<restC, now, cleared>>

\* resetAccessToken() on the client of credential cr.
ResetAccessToken(cr) ==
  /\ streamToken' = [streamToken EXCEPT ![cr] = NoEntry]
  /\ cleared' = cleared \cup {SlotOf("stream", cr)}
  /\ UNCHANGED <<restC, now, cardToken, sessionTokens, calls>>

\* clearAccessTokenCache() of ai-card.
ClearAccessTokenCache ==
  /\ cardToken' = NoEntry
  /\ cleared' = cleared \cup {SlotOf("aicard", "A")}
  /\ UNCHANGED <<restC, now, streamToken, sessionTokens, calls>>

\* a minute passes
Tick ==
  /\ now < MaxTime
  /\ now' = now + 1
  /\ UNCHANGED <<restC, streamToken, cardToken, sessionTokens, calls, cleared>>

InitC ==
  /\ now = 0
  /\ streamToken = [cr \in Creds |-> NoEntry]
  /\ cardToken = NoEntry
  /\ sessionTokens = [cr \in Creds |-> NoEntry]
  /\ calls = [c \in CallIds |-> NoCall]
  /\ cleared = {}

NextTok ==
  \/ \E c \in CallIds, impl \in Impls, cr \in Creds : GetAccessToken(c, impl, cr)
  \/ \E c \in CallIds, o \in {"ok", "http_error", "no_token", "no_expiry"},
        ei \in ExpireIns : ExchangeDone(c, o, ei)
  \/ \E cr \in Creds : ResetAccessToken(cr)
  \/ ClearAccessTokenCache
  \/ Tick


\* ------------------------------------------------------------- Part D
\* Session keys.  The clock counts in units of 15 minutes, so the default
\* sessionTimeout of 1800000 ms is 2; several calls can read the same
\* Date.now().
DEFAULT_SESSION_TIMEOUT == 2
SenderIds == {"u1", "u2"}
NoStamp == -1
NoSession == [exists |-> FALSE, lastActivity |-> 0, stamp |-> NoStamp]

\* The sessionId strings: `dingtalk:<senderId>` for a first session (stamp
\* NoStamp) and `dingtalk:<senderId>:<now>` for a forced or timed-out one.
SessionId(id, stamp) == <<"dingtalk", id, stamp>>

\* the entry getSessionKey stores for the sender
SessionAfter(existing, forceNew, t, timeout) ==
  IF forceNew
  THEN [exists |-> TRUE, lastActivity |-> t, stamp |-> t]
  ELSE IF existing.exists
  THEN IF t - existing.lastActivity > timeout
       THEN [exists |-> TRUE, lastActivity |-> t, stamp |-> t]
       ELSE [existing EXCEPT !.lastActivity = t]
  ELSE [exists |-> TRUE, lastActivity |-> t, stamp |-> NoStamp]

\* the isNew flag getSessionKey returns
IsNewAfter(existing, forceNew, t, timeout) ==
  \/ forceNew
  \/ existing.exists /\ t - existing.lastActivity > timeout

\* what one getSessionKey call was given, found and returned, and the
\* Date.now() it read
KeyCall(id, forceNew) ==
  [id |-> id, forceNew |-> forceNew, at |-> sessNow,
   before |-> IF userSessions[id].exists
              THEN SessionId(id, userSessions[id].stamp) ELSE <<>>,
   sessionKey |-> SessionId(id, SessionAfter(userSessions[id], forceNew, sessNow,
                                             DEFAULT_SESSION_TIMEOUT).stamp),
   isNew |-> IsNewAfter(userSessions[id], forceNew, sessNow, DEFAULT_SESSION_TIMEOUT)]

\* the map after getSessionKey(id, forceNew, DEFAULT_SESSION_TIMEOUT)
SessionsAfter(id, forceNew) ==
  [userSessions EXCEPT
     ![id] = SessionAfter(@, forceNew, sessNow, DEFAULT_SESSION_TIMEOUT)]

\* getSessionKey(senderId, forceNew, sessionTimeout): one synchronous call
GetSessionKey(id, forceNew) ==
  /\ Len(keyCalls) < MaxKeyCalls
  /\ userSessions' = SessionsAfter(id, forceNew)
  /\ keyCalls' = Append(keyCalls, KeyCall(id, forceNew))
  /\ UNCHANGED <<restD, sessNow>>

\* clearSession(senderId)
ClearSession(id) ==
  /\ userSessions[id].exists
  /\ userSessions' = [userSessions EXCEPT ![id] = NoSession]
  /\ UNCHANGED <<restD, sessNow, keyCalls>>

\* the entry cleanupExpiredSessions leaves for a sender
SweptSession(session, t, timeout) ==
  IF session.exists /\ t - session.lastActivity > timeout THEN NoSession
  ELSE session

\* cleanupExpiredSessions(sessionTimeout), which the sweep interval of
\* monitorStream calls every 5 minutes
CleanupExpiredSessions ==
  /\ userSessions' = [id \in SenderIds |->
                       SweptSession(userSessions[id], sessNow, DEFAULT_SESSION_TIMEOUT)]
  /\ UNCHANGED <<restD, sessNow, keyCalls>>

\* the clock advances
SessTick ==
  /\ sessNow < MaxClock
  /\ sessNow' = sessNow + 1
  /\ UNCHANGED <<restD, userSessions, keyCalls>>

InitD ==
  /\ userSessions = [id \in SenderIds |-> NoSession]
  /\ sessNow = 0
  /\ keyCalls = <<>>

NextSess ==
  \/ \E id \in SenderIds, f \in BOOLEAN : GetSessionKey(id, f)
  \/ \E id \in SenderIds : ClearSession(id)
  \/ SessTick

\* getSessionKey calls, the sweep and the clock, with no clearSession
NextExpiry ==
  \/ \E id \in SenderIds, f \in BOOLEAN : GetSessionKey(id, f)
  \/ CleanupExpiredSessions
  \/ SessTick

\* ------------------------------------------------------------- Part E
\* AI cards: the free functions of ai-card.ts, the AICardReplier that wraps
\* them and the card mode of handleDingTalkStreamingMessage.
\*
\* An HTTP call ends "ok" (2xx), "status" (any other status) or "reject" (the
\* request was sent and fetch rejected: no response arrived).  getAccessToken
\* can also return without a token ("no_token": a 2xx body without
\* accessToken); the platform then answers the create call with an error
\* status, as it does for every request without a valid token.
INPUTING == "2"
FINISHED == "3"
FAILED == "5"
HttpOutcomes == {"ok", "status", "reject"}
TokenOutcomes == HttpOutcomes \cup {"no_token"}

\* AICardInstance, or null
NoCard == [exists |-> FALSE, inputingStarted |-> FALSE]
NewCard == [exists |-> TRUE, inputingStarted |-> FALSE]

\* ---- createAICard
\* A createAICard call: pc is idle, token, create, deliver (the awaited step)
\* or done; the outcome of each step taken; result is "card", "null" or
\* "threw".
IdleCreate ==
  [pc |-> "idle", tokenO |-> "none", createO |-> "none", deliverO |-> "none",
   result |-> "none"]
BeginCreate == [IdleCreate EXCEPT !.pc = "token"]

\* getAccessToken settled: a rejection is caught and null returned, else
\* POST /v1.0/card/instances is sent
AfterToken(cc, o) ==
  IF o \in {"ok", "no_token"}
  THEN [cc EXCEPT !.pc = "create", !.tokenO = o]
  ELSE [cc EXCEPT !.pc = "done", !.tokenO = o, !.result = "null"]

\* a create call that does not look at the response status
AfterCreateUnchecked(cc, o) ==
  IF o = "reject"
  THEN [cc EXCEPT !.pc = "done", !.createO = o, !.result = "null"]
  ELSE [cc EXCEPT !.pc = "deliver", !.createO = o]

\* the create call settled: `if (!createResp.ok) return null`, else
\* POST /v1.0/card/instances/deliver is sent
AfterCreate(cc, o) ==
  IF o = "ok"
  THEN [cc EXCEPT !.pc = "deliver", !.createO = o]
  ELSE [cc EXCEPT !.pc = "done", !.createO = o, !.result = "null"]

\* the deliver call settled: `if (!deliverResp.ok) return null`, else the
\* instance is returned
AfterDeliver(cc, o) ==
  IF o = "ok"
  THEN [cc EXCEPT !.pc = "done", !.deliverO = o, !.result = "card"]
  ELSE [cc EXCEPT !.pc = "done", !.deliverO = o, !.result = "null"]

\* the outcomes the awaited step of a createAICard call can have
CreateAllowed(cc, o) ==
  \/ cc.pc = "token" /\ o \in TokenOutcomes
  \/ cc.pc = "create" /\ o \in HttpOutcomes /\ (cc.tokenO = "no_token" => o # "ok")
  \/ cc.pc = "deliver" /\ o \in HttpOutcomes

CreateStep(cc, o) ==
  IF cc.pc = "token" THEN AfterToken(cc, o)
  ELSE IF cc.pc = "create" THEN AfterCreate(cc, o)
  ELSE AfterDeliver(cc, o)

\* the instance a finished createAICard call returned
CardOf(cc) == IF cc.result = "card" THEN NewCard ELSE NoCard

\* ---- streamAICard, finishAICard, failAICard
\* A call of one of them: fn is stream, finish or fail; pc names the request
\* it awaits: inputing (PUT flowStatus INPUTING), streaming (PUT
\* /v1.0/card/streaming), finished (PUT flowStatus FINISHED), failed (PUT
\* flowStatus FAILED), or is idle or done; result is "ok" or "threw".
IdleCall == [fn |-> "none", pc |-> "idle", result |-> "none"]

\* streamAICard begins (fn "stream"), also as the first step of finishAICard
\* (fn "finish"): the INPUTING switch comes first unless card.inputingStarted
StreamAICard(card, fn) ==
  [fn |-> fn, pc |-> IF card.inputingStarted THEN "streaming" ELSE "inputing",
   result |-> "none"]

\* failAICard begins
FailAICard == [fn |-> "fail", pc |-> "failed", result |-> "none"]

\* the awaited request settled
CallStep(call, o) ==
  IF call.pc = "inputing"
  THEN IF o = "ok" THEN [call EXCEPT !.pc = "streaming"]
       ELSE [call EXCEPT !.pc = "done", !.result = "threw"]
  ELSE IF call.pc = "streaming"
  THEN IF o # "ok" THEN [call EXCEPT !.pc = "done", !.result = "threw"]
       ELSE IF call.fn = "finish" THEN [call EXCEPT !.pc = "finished"]
       ELSE [call EXCEPT !.pc = "done", !.result = "ok"]
  ELSE IF call.pc = "finished"
  THEN IF o = "reject" THEN [call EXCEPT !.pc = "done", !.result = "threw"]
       ELSE [call EXCEPT !.pc = "done", !.result = "ok"]
  ELSE [call EXCEPT !.pc = "done", !.result = "ok"]

\* an INPUTING switch whose success is not recorded on the instance
CardAfterForgets(card, call, o) == card

\* card.inputingStarted = true after the INPUTING switch answered 2xx
CardAfter(card, call, o) ==
  IF call.pc = "inputing" /\ o = "ok"
  THEN [card EXCEPT !.inputingStarted = TRUE]
  ELSE card

\* the flowStatus the request a call now awaits carries, if any
StatusOf(call) ==
  IF call.pc = "inputing" THEN <<INPUTING>>
  ELSE IF call.pc = "finished" THEN <<FINISHED>>
  ELSE IF call.pc = "failed" THEN <<FAILED>>
  ELSE <<>>

\* does the call now await a request?
Requests(call) == IF call.pc \in {"idle", "done"} THEN 0 ELSE 1

\* the request a call now awaits, if any: its kind, and the isFinalize flag
\* a PUT /v1.0/card/streaming carries (`finished`, true under finishAICard)
ReqOf(call) ==
  IF call.pc \in {"idle", "done"} THEN <<>>
  ELSE <<[kind |-> call.pc, fin |-> call.pc = "streaming" /\ call.fn = "finish"]>>

\* ---- AICardReplier (src/src/card-replier.ts)
\* card is this.card; creating the createAICard call of start(); call the
\* streamAICard / finishAICard / failAICard call in flight; statuses the
\* flowStatus values sent for the card so far; http the requests streaming,
\* finish and fail issued; warns the "Card not started" warnings; threw whether
\* one of those calls rejected; gotCard whether a start() has returned a card;
\* reqs the requests sent for the instance now in this.card, in order, and
\* inputOkAt how many of them had been sent when an INPUTING switch of that
\* instance was first answered 2xx (0: none was yet).
IdleReplier ==
  [card |-> NoCard, creating |-> IdleCreate, call |-> IdleCall, statuses |-> <<>>,
   http |-> 0, warns |-> 0, threw |-> FALSE, gotCard |-> FALSE, starts |-> 0,
   ops |-> 0, reqs |-> <<>>, inputOkAt |-> 0]

\* a guard that lets every call through
CardStartedAlways(card) == TRUE

\* the `if (!this.card)` guard of streaming, finish and fail
CardStarted(card) == card.exists

\* start(): createAICard begins (the caller awaits the call it has in flight
\* before it starts the replier again)
RStart ==
  /\ replier.creating.pc \in {"idle", "done"}
  /\ replier.call.pc \in {"idle", "done"}
  /\ replier.starts < MaxStarts
  /\ replier' = [replier EXCEPT !.creating = BeginCreate, !.starts = @ + 1]
  /\ UNCHANGED <<restE, userSessions, sessNow, keyCalls, handler>>

\* a step of that createAICard settles; when it was the last one start()
\* stores what createAICard returned in this.card
RCreateStep(o) ==
  /\ CreateAllowed(replier.creating, o)
  /\ LET cc == CreateStep(replier.creating, o)
     IN replier' = [replier EXCEPT
          !.creating = cc,
          !.card = IF cc.pc = "done" THEN CardOf(cc) ELSE @,
          !.reqs = IF cc.pc = "done" THEN <<>> ELSE @,
          !.inputOkAt = IF cc.pc = "done" THEN 0 ELSE @,
          !.gotCard = @ \/ cc.result = "card"]
  /\ UNCHANGED <<restE, userSessions, sessNow, keyCalls, handler>>

\* streaming(content), finish(content) or fail(errorMessage) is called, one
\* call at a time; while a start() is in flight only on a replier that has
\* no card yet
ROp(op) ==
  /\ replier.call.pc \in {"idle", "done"}
  /\ replier.creating.pc \in {"idle", "done"} \/ ~replier.card.exists
  /\ replier.ops < MaxOps
  /\ IF ~CardStarted(replier.card)
     THEN replier' = [replier EXCEPT !.warns = @ + 1, !.ops = @ + 1]
     ELSE LET call == IF op = "fail" THEN FailAICard
                      ELSE StreamAICard(replier.card,
                                        IF op = "finish" THEN "finish" ELSE "stream")
          IN replier' = [replier EXCEPT
               !.call = call,
               !.statuses = @ \o StatusOf(call),
               !.reqs = @ \o ReqOf(call),
               !.http = @ + 1,
               !.ops = @ + 1]
  /\ UNCHANGED <<restE, userSessions, sessNow, keyCalls, handler>>

\* the request the call awaits settles
RCallStep(o) ==
  /\ replier.call.pc \notin {"idle", "done"}
  /\ LET call == CallStep(replier.call, o)
     IN replier' = [replier EXCEPT
          !.call = call,
          !.card = IF @.exists THEN CardAfter(@, replier.call, o) ELSE @,
          !.statuses = @ \o StatusOf(call),
          !.inputOkAt = IF @ = 0 /\ replier.call.pc = "inputing" /\ o = "ok"
                        THEN Len(replier.reqs) ELSE @,
          !.reqs = @ \o ReqOf(call),
          !.http = @ + Requests(call),
          !.threw = @ \/ call.result = "threw"]
  /\ UNCHANGED <<restE, userSessions, sessNow, keyCalls, handler>>

NextReplier ==
  \/ RStart
  \/ \E o \in TokenOutcomes : RCreateStep(o)
  \/ \E op \in {"streaming", "finish", "fail"} : ROp(op)
  \/ \E o \in HttpOutcomes : RCallStep(o)

\* ---- handleDingTalkStreamingMessage (src/src/streaming-handler.ts)
\* An inbound text is a sequence of pieces: a blank, the reset literal "/new"
\* in lower or upper case, or another word.  The other literals of
\* NEW_SESSION_COMMANDS are compared in the same way.
NEW_SESSION_COMMANDS == {"/new"}
Pieces == {" ", "/new", "/NEW", "hi"}
Texts == UNION {[1..n -> Pieces] : n \in 0..MaxTextLen}

\* String.prototype.trim: blanks are dropped from both ends
RECURSIVE TrimStart(_)
TrimStart(s) == IF s # <<>> /\ Head(s) = " " THEN TrimStart(Tail(s)) ELSE s
RECURSIVE TrimEnd(_)
TrimEnd(s) ==
  IF s # <<>> /\ s[Len(s)] = " " THEN TrimEnd(SubSeq(s, 1, Len(s) - 1)) ELSE s
Trim(s) == TrimEnd(TrimStart(s))

\* String.prototype.toLowerCase
LowerOf(c) ==
  CASE c = "/NEW" -> "/new"
    [] c = "U" -> "u"
    [] c = "N" -> "n"
    [] OTHER -> c
ToLowerCase(s) == [i \in 1..Len(s) |-> LowerOf(s[i])]

\* a test that accepts every text containing a literal
IsNewSessionCommandIncludes(text) ==
  \E i \in 1..Len(text) : ToLowerCase(text)[i] \in NEW_SESSION_COMMANDS

\* isNewSessionCommand: trimmed and lowered, the text equals a literal
IsNewSessionCommand(text) ==
  \E cmd \in NEW_SESSION_COMMANDS : ToLowerCase(Trim(text)) = ToLowerCase(<<cmd>>)

\* The invocation: pc is idle, confirm (the reset confirmation is being
\* sent), oapi (getOapiAccessToken awaited), creating (createAICard awaited),
\* gateway (the next chunk of streamFromGateway awaited, card mode), call (a
\* card call awaited; ctx says which: push inside the loop, finish1 after the
\* loop, finish2 and fail inside the catch), fb_gateway (the next chunk
\* awaited, regular mode), fb_send, fb_apology (the reply or the error text is
\* being sent) or done.  outSends lists the messages handed to the session
\* webhook, gateway counts the gateway requests, cardHttp the card PUTs,
\* midErr records that a push or finish call inside the try block threw,
\* result how the invocation ended.  accumulated is the variable of that
\* name, a chunk being the number it arrived as; pushes lists the contents
\* the streamAICard calls of the loop were given, finalized those given to
\* finishAICard.  elapsed is the time in ms since the last streamAICard or
\* finishAICard call began, counted up to updateInterval (and standing there
\* before the first call, lastUpdateTime being 0); gaps lists its value at
\* the start of every such call after the first.  reqs lists the card
\* requests sent, finOkAt how many had been sent when a streaming PUT with
\* isFinalize was first answered 2xx (0: none was yet).
UpdateInterval == 300
ErrorNote == 0
IdleHandler ==
  [pc |-> "idle", text |-> <<>>, cardMode |-> FALSE, creating |-> IdleCreate,
   card |-> NoCard, call |-> IdleCall, ctx |-> "none", chunks |-> 0,
   pushed |-> FALSE, gwOk |-> FALSE, statuses |-> <<>>, outSends |-> <<>>,
   cardHttp |-> 0, gateway |-> 0, midErr |-> FALSE, result |-> "none",
   accumulated |-> <<>>, pushes |-> <<>>, finalized |-> <<>>,
   elapsed |-> UpdateInterval, pushStarted |-> FALSE, gaps |-> <<>>,
   reqs |-> <<>>, finOkAt |-> 0]

\* a loop that pushes the chunk it just received, not the text so far
AccumulateLatest(accumulated, chunk) == <<chunk>>

\* accumulated += chunk
Accumulate(accumulated, chunk) == Append(accumulated, chunk)

\* the handler begins a card call; a streamAICard or finishAICard call is
\* a push call, and the time since the previous one is noted
WithCall(h, call, ctx) ==
  LET isPush == call.fn \in {"stream", "finish"}
  IN [h EXCEPT !.pc = "call", !.call = call, !.ctx = ctx,
               !.statuses = @ \o StatusOf(call), !.cardHttp = @ + Requests(call),
               !.reqs = @ \o ReqOf(call),
               !.gaps = IF isPush /\ h.pushStarted THEN Append(@, h.elapsed) ELSE @,
               !.pushStarted = @ \/ isPush,
               !.elapsed = IF isPush THEN 0 ELSE @]

\* finishAICard(card, accumulated) begins
WithFinish(h, content, ctx) ==
  WithCall([h EXCEPT !.finalized = Append(@, content)],
           StreamAICard(h.card, "finish"), ctx)

\* now - lastUpdateTime >= updateInterval
ThrottleOpen(h) == h.elapsed >= UpdateInterval

\* the regular-message mode begins: the gateway request is sent
Fallback(h) == [h EXCEPT !.pc = "fb_gateway", !.gateway = @ + 1]

\* The message arrives (sender u1, media upload enabled).  An empty message
\* is skipped; a reset command renews the session and sends the confirmation;
\* any other text gets its session key, then getOapiAccessToken is awaited.
HandleMessage(text, cardMode) ==
  /\ handler.pc = "idle"
  /\ LET h == [handler EXCEPT !.text = text, !.cardMode = cardMode]
     IN IF text = <<>>
        THEN /\ handler' = [h EXCEPT !.pc = "done", !.result = "returned"]
             /\ UNCHANGED <<userSessions, keyCalls>>
        ELSE /\ userSessions' = SessionsAfter("u1", IsNewSessionCommand(text))
             /\ keyCalls' = Append(keyCalls, KeyCall("u1", IsNewSessionCommand(text)))
             /\ handler' =
                  IF IsNewSessionCommand(text)
                  THEN [h EXCEPT !.pc = "confirm", !.outSends = Append(@, "confirm")]
                  ELSE [h EXCEPT !.pc = "oapi"]
  /\ UNCHANGED <<restE, sessNow, replier>>

\* getOapiAccessToken settles (it never throws): with aiCardMode enabled
\* createAICard begins, else the regular-message mode
HOapiDone ==
  /\ handler.pc = "oapi"
  /\ handler' = IF handler.cardMode
                THEN [handler EXCEPT !.pc = "creating", !.creating = BeginCreate]
                ELSE Fallback(handler)
  /\ UNCHANGED <<restE, userSessions, sessNow, keyCalls, replier>>

\* a step of createAICard settles; with a card the gateway stream begins,
\* with null the handler falls back to the regular-message mode
HCreateStep(o) ==
  /\ handler.pc = "creating"
  /\ CreateAllowed(handler.creating, o)
  /\ LET cc == CreateStep(handler.creating, o)
         h == [handler EXCEPT !.creating = cc]
     IN handler' =
          IF cc.pc # "done" THEN h
          ELSE IF cc.result = "card"
          THEN [h EXCEPT !.pc = "gateway", !.card = NewCard, !.gateway = @ + 1]
          ELSE Fallback(h)
  /\ UNCHANGED <<restE, userSessions, sessNow, keyCalls, replier>>

\* Card mode: the gateway yields a chunk.  It is pushed with streamAICard
\* when 300 ms have passed since the last push (always so before the first
\* push completed, lastUpdateTime being 0), else only accumulated.
HChunk(push) ==
  /\ handler.pc = "gateway"
  /\ handler.chunks < MaxChunks
  /\ push <=> ThrottleOpen(handler)
  /\ LET h == [handler EXCEPT
                 !.chunks = @ + 1,
                 !.accumulated = Accumulate(@, handler.chunks + 1)]
     IN handler' =
          IF push
          THEN WithCall([h EXCEPT !.pushes = Append(@, h.accumulated)],
                        StreamAICard(h.card, "stream"), "push")
          ELSE h
  /\ UNCHANGED <<restE, userSessions, sessNow, keyCalls, replier>>

\* Time passes while the handler awaits a chunk or a card request.
HTick(d) ==
  /\ handler.pc \in {"gateway", "call"}
  /\ handler.pushStarted
  /\ handler.elapsed < UpdateInterval
  /\ handler' = [handler EXCEPT !.elapsed = Min(@ + d, UpdateInterval)]
  /\ UNCHANGED <<restE, userSessions, sessNow, keyCalls, replier>>

\* Card mode: the gateway stream ends; the text (no local images, no file
\* markers) is post-processed and finishAICard begins.
HGatewayEnd ==
  /\ handler.pc = "gateway"
  /\ handler' = WithFinish([handler EXCEPT !.gwOk = TRUE],
                           handler.accumulated, "finish1")
  /\ UNCHANGED <<restE, userSessions, sessNow, keyCalls, replier>>

\* Card mode: the gateway stream throws; the catch block appends the error to
\* the text and calls finishAICard.
HGatewayError ==
  /\ handler.pc = "gateway"
  /\ handler' = WithFinish(handler, Append(handler.accumulated, ErrorNote), "finish2")
  /\ UNCHANGED <<restE, userSessions, sessNow, keyCalls, replier>>

\* The request a card call awaits settles.  A push that returned goes back
\* to the loop; a finish or fail that returned ends the handler.  A push or a
\* first finish that threw lands in the catch block, which calls finishAICard;
\* when that one throws too, failAICard is called.  Nothing is rethrown.
HCallStep(o) ==
  /\ handler.pc = "call"
  /\ LET call == CallStep(handler.call, o)
         h == [handler EXCEPT
                 !.call = call,
                 !.card = CardAfter(@, handler.call, o),
                 !.statuses = @ \o StatusOf(call),
                 !.cardHttp = @ + Requests(call),
                 !.finOkAt = IF @ = 0 /\ handler.call.pc = "streaming"
                                /\ handler.call.fn = "finish" /\ o = "ok"
                             THEN Len(handler.reqs) ELSE @,
                 !.reqs = @ \o ReqOf(call),
                 !.midErr = @ \/ (call.result = "threw" /\ handler.ctx \in {"push", "finish1"})]
     IN handler' =
          IF call.pc # "done" THEN h
          ELSE IF call.result = "ok"
          THEN IF handler.ctx = "push"
               THEN [h EXCEPT !.pc = "gateway", !.pushed = TRUE, !.ctx = "none"]
               ELSE [h EXCEPT !.pc = "done", !.result = "returned"]
          ELSE IF handler.ctx \in {"push", "finish1"}
          THEN WithFinish(h, Append(h.accumulated, ErrorNote), "finish2")
          ELSE WithCall(h, FailAICard, "fail")
  /\ UNCHANGED <<restE, userSessions, sessNow, keyCalls, replier>>

\* Regular mode: the gateway yields a chunk.
HFbChunk ==
  /\ handler.pc = "fb_gateway"
  /\ handler.chunks < MaxChunks
  /\ handler' = [handler EXCEPT !.chunks = @ + 1]
  /\ UNCHANGED <<restE, userSessions, sessNow, keyCalls, replier>>

\* Regular mode: the gateway stream ends; the full response (or the
\* placeholder when it is empty) is sent with sendDingTalkMessage.
HFbEnd ==
  /\ handler.pc = "fb_gateway"
  /\ handler' = [handler EXCEPT
       !.pc = "fb_send", !.gwOk = TRUE,
       !.outSends = Append(@, IF handler.chunks > 0 THEN "response" ELSE "placeholder")]
  /\ UNCHANGED <<restE, userSessions, sessNow, keyCalls, replier>>

\* Regular mode: the gateway stream throws; the catch block sends the error
\* text with sendDingTalkTextMessage.
HFbError ==
  /\ handler.pc = "fb_gateway"
  /\ handler' = [handler EXCEPT !.pc = "fb_apology", !.outSends = Append(@, "apology")]
  /\ UNCHANGED <<restE, userSessions, sessNow, keyCalls, replier>>

\* A send through the session webhook settles; sendViaWebhook throws on a
\* non-2xx answer or an errcode.  The reset confirmation and the error text
\* are sent outside any try; a failed reply lands in the catch block, which
\* sends the error text.
HSendDone(ok) ==
  /\ handler.pc \in {"confirm", "fb_send", "fb_apology"}
  /\ handler' =
       IF ok THEN [handler EXCEPT !.pc = "done", !.result = "returned"]
       ELSE IF handler.pc = "fb_send"
       THEN [handler EXCEPT !.pc = "fb_apology", !.outSends = Append(@, "apology")]
       ELSE [handler EXCEPT !.pc = "done", !.result = "threw"]
  /\ UNCHANGED <<restE, userSessions, sessNow, keyCalls, replier>>

InitE ==
  /\ handler = IdleHandler
  /\ replier = IdleReplier

NextHandler ==
  \/ \E text \in Texts, cardMode \in BOOLEAN : HandleMessage(text, cardMode)
  \/ HOapiDone
  \/ \E o \in TokenOutcomes : HCreateStep(o)
  \/ \E push \in BOOLEAN : HChunk(push)
  \/ \E d \in {100, 200} : HTick(d)
  \/ HGatewayEnd
  \/ HGatewayError
  \/ \E o \in HttpOutcomes : HCallStep(o)
  \/ HFbChunk
  \/ HFbEnd
  \/ HFbError
  \/ \E ok \in BOOLEAN : HSendDone(ok)

\* ------------------------------------------------------------- Part F
\* Monitor sessions.  monitorStream takes the client of createDingTalkClient
\* (one cached client, replaced when the credentials differ), stores it in the
\* module global currentClient and returns a promise that its abort listener
\* resolves.  The sweep interval of every session is stored in the one module
\* global cleanupIntervalId.  The client object a session creates and the
\* interval it schedules carry the session's number.
MonIds == 1..MaxMonitors
NoClient == 0
NoTimer == 0

\* st: none (not started), running (promise pending) or resolved; client: the
\* client the session got; timer: the interval it scheduled, or NoTimer
NoMonitor == [st |-> "none", client |-> NoClient, timer |-> NoTimer]
NoCachedClient == [id |-> NoClient, cred |-> "none"]

\* createDingTalkClient: the cached client for the same appKey and appSecret,
\* else a new client, which replaces the cached one
CreateDingTalkClient(i, cr) ==
  IF cachedClient.id # NoClient /\ cachedClient.cred = cr
  THEN cachedClient
  ELSE [id |-> i, cred |-> cr]

\* clearInterval(cleanupIntervalId) when it is set
ClearedTimers(ts, id) == ts \ {id}

\* cleanup() of the session whose client is c, with current as currentClient
Cleanup(c, current) ==
  /\ timers' = ClearedTimers(timers, cleanupIntervalId)
  /\ cleanupIntervalId' = NoTimer
  /\ IF current = c
     THEN /\ clientStopping' = [clientStopping EXCEPT ![c] = TRUE]
          /\ currentClient' = NoClient
     ELSE /\ UNCHANGED clientStopping
          /\ currentClient' = current

\* monitorStream with a signal that is not aborted: the handler is registered,
\* client.connect() is called and the sweep interval is scheduled.
MonitorStart(i, cr) ==
  /\ monitors[i].st = "none"
  /\ \A j \in MonIds : j < i => monitors[j].st # "none"
  /\ LET client == CreateDingTalkClient(i, cr)
     IN /\ cachedClient' = client
        /\ currentClient' = client.id
        /\ clientStopping' = [clientStopping EXCEPT ![client.id] = FALSE]
        /\ cleanupIntervalId' = i
        /\ timers' = timers \cup {i}
        /\ monitors' = [monitors EXCEPT ![i] =
             [st |-> "running", client |-> client.id, timer |-> i]]
  /\ UNCHANGED restF

\* monitorStream with a signal that is already aborted: cleanup() and resolve()
\* before anything is registered.
MonitorStartAborted(i, cr) ==
  /\ monitors[i].st = "none"
  /\ \A j \in MonIds : j < i => monitors[j].st # "none"
  /\ LET client == CreateDingTalkClient(i, cr)
     IN /\ cachedClient' = client
        /\ Cleanup(client.id, client.id)
        /\ monitors' = [monitors EXCEPT ![i] =
             [st |-> "resolved", client |-> client.id, timer |-> NoTimer]]
  /\ UNCHANGED restF

\* the abort event of the signal of session i: handleAbort runs cleanup() and
\* resolve().
MonitorAbort(i) ==
  /\ monitors[i].st = "running"
  /\ Cleanup(monitors[i].client, currentClient)
  /\ monitors' = [monitors EXCEPT ![i].st = "resolved"]
  /\ UNCHANGED <<restF, cachedClient>>

\* stopDingTalkMonitor(): clears the interval and disconnects currentClient.
StopDingTalkMonitor ==
  /\ timers' = ClearedTimers(timers, cleanupIntervalId)
  /\ cleanupIntervalId' = NoTimer
  /\ clientStopping' = IF currentClient # NoClient
                       THEN [clientStopping EXCEPT ![currentClient] = TRUE]
                       ELSE clientStopping
  /\ currentClient' = NoClient
  /\ UNCHANGED <<restF, monitors, cachedClient>>

InitF ==
  /\ monitors = [i \in MonIds |-> NoMonitor]
  /\ cachedClient = NoCachedClient
  /\ currentClient = NoClient
  /\ cleanupIntervalId = NoTimer
  /\ timers = {}
  /\ clientStopping = [c \in MonIds |-> FALSE]

NextMonitor ==
  \/ \E i \in MonIds, cr \in Creds : MonitorStart(i, cr)
  \/ \E i \in MonIds, cr \in Creds : MonitorStartAborted(i, cr)
  \/ \E i \in MonIds : MonitorAbort(i)
  \/ StopDingTalkMonitor

\* ------------------------------------------------------------- Part G
\* One robot message under the bot-message handler of monitorStream:
\* handleDingTalkMessage admits it by policy, downloads its media, dispatches
\* it to the agent, whose replies the reply dispatcher delivers through
\* sendMessageDingTalk or sendActionCardDingTalk, and the handler acks.
\* Strings are sequences of pieces, as in Part E.
AllowEntries == {<<>>, <<"*">>, <<" ", "U">>, <<"n">>}
AllowLists == UNION {[1..n -> AllowEntries] : n \in 0..MaxAllow}
NoList == <<<<"absent">>>>
GroupAllowLists == {NoList, <<>>, <<<<"u">>>>}
StaffIds == {<<"U">>, <<"x">>}
Nicks == {<<>>, <<"N">>}

\* allowFrom.map(String(entry).trim().toLowerCase()).filter(Boolean), as the
\* set that includes() searches
NormalizedAllowFrom(allowFrom) ==
  {ToLowerCase(Trim(allowFrom[i])) : i \in 1..Len(allowFrom)} \ {<<>>}

\* resolveDingTalkAllowlistMatch(...).allowed
ResolveDingTalkAllowlistMatch(allowFrom, senderId, senderName) ==
  LET list == NormalizedAllowFrom(allowFrom)
  IN IF list = {} THEN FALSE
     ELSE IF <<"*">> \in list THEN TRUE
     ELSE IF ToLowerCase(senderId) \in list THEN TRUE
     ELSE senderName # <<>> /\ ToLowerCase(senderName) \in list

\* a check that lets everybody in when the allow list is empty
IsDingTalkGroupAllowedEmptyOpen(groupPolicy, allowFrom, senderId, senderName) ==
  IF groupPolicy = "disabled" THEN FALSE
  ELSE IF groupPolicy = "open" THEN TRUE
  ELSE NormalizedAllowFrom(allowFrom) = {}
       \/ ResolveDingTalkAllowlistMatch(allowFrom, senderId, senderName)

\* isDingTalkGroupAllowed
IsDingTalkGroupAllowed(groupPolicy, allowFrom, senderId, senderName) ==
  IF groupPolicy = "disabled" THEN FALSE
  ELSE IF groupPolicy = "open" THEN TRUE
  ELSE ResolveDingTalkAllowlistMatch(allowFrom, senderId, senderName)

\* The robot messages: bad marks a payload on which JSON.parse or
\* parseDingTalkMessage throws; policy is groupPolicy for a group message and
\* dmPolicy for a direct one; allowFrom is groupAllowFrom or allowFrom of the
\* channel config, groupAllowFrom the allowFrom of the group's own config
\* section (NoList when absent); media says that the message carries a
\* download code.
BotMessages ==
  [bad : {FALSE}, isGroup : {TRUE}, policy : {"open", "allowlist", "disabled"},
   allowFrom : AllowLists, groupAllowFrom : GroupAllowLists,
   senderId : StaffIds, senderNick : Nicks, media : BOOLEAN]
  \cup [bad : {FALSE}, isGroup : {FALSE}, policy : {"pairing", "allowlist", "open"},
        allowFrom : AllowLists, groupAllowFrom : {NoList},
        senderId : StaffIds, senderNick : {<<"N">>}, media : BOOLEAN]
  \cup [bad : {TRUE}, isGroup : {FALSE}, policy : {"open"},
        allowFrom : {<<>>}, groupAllowFrom : {NoList},
        senderId : {<<"x">>}, senderNick : {<<>>}, media : {FALSE}]

\* groupConfig?.allowFrom ?? groupAllowFrom
SenderAllowFrom(msg) ==
  IF msg.groupAllowFrom # NoList THEN msg.groupAllowFrom ELSE msg.allowFrom

\* the policy checks of handleDingTalkMessage: TRUE when the message goes on
\* to the dispatch
Admitted(msg) ==
  IF msg.isGroup
  THEN IsDingTalkGroupAllowed(msg.policy, SenderAllowFrom(msg), msg.senderId, msg.senderNick)
  ELSE msg.policy = "allowlist" =>
         ResolveDingTalkAllowlistMatch(msg.allowFrom, msg.senderId, <<>>)

\* pc: idle, media (resolveDingTalkMediaList awaits a download), dispatch
\* (dispatchReplyFromConfig awaited) or done; dispatched: the agent dispatcher
\* was invoked; routerCalls: deliver calls of the reply dispatcher; outbound:
\* HTTP calls started for the message (downloads and sends); inflight: those
\* not settled yet; ack: none, ok or fail, what the handler acked with.
IdleBot ==
  [pc |-> "idle",
   msg |-> [bad |-> TRUE, isGroup |-> FALSE, policy |-> "open", allowFrom |-> <<>>,
            groupAllowFrom |-> NoList, senderId |-> <<"x">>, senderNick |-> <<>>,
            media |-> FALSE],
   dispatched |-> FALSE, routerCalls |-> 0, outbound |-> 0, inflight |-> 0,
   ack |-> "none"]

\* a handler that starts handleDingTalkMessage and acks without awaiting it
AwaitForgotten(b, pc) == [b EXCEPT !.pc = pc, !.ack = "ok"]

\* `await handleDingTalkMessage(...)` in the handler: the ack waits until the
\* promise settles
Await(b, pc) == [b EXCEPT !.pc = pc]

\* The handler is invoked for a robot frame.  A payload that does not parse
\* is acked with failure.  A message the policy rejects makes
\* handleDingTalkMessage return before its try block, and the handler acks
\* success.  Otherwise the media download is awaited, or, without media, the
\* dispatch.
BotReceive(msg) ==
  /\ bot.pc = "idle"
  /\ LET b == [bot EXCEPT !.msg = msg]
     IN bot' = IF msg.bad THEN [b EXCEPT !.pc = "done", !.ack = "fail"]
               ELSE IF ~Admitted(msg) THEN [b EXCEPT !.pc = "done", !.ack = "ok"]
               ELSE IF msg.media
                    THEN Await([b EXCEPT !.outbound = @ + 1, !.inflight = 1], "media")
                    ELSE Await([b EXCEPT !.dispatched = TRUE], "dispatch")
  /\ UNCHANGED restG

\* downloadMediaDingTalk settles (a failure is caught and logged): the
\* context is finalized and dispatchReplyFromConfig is called and awaited.
BotMediaDone ==
  /\ bot.pc = "media"
  /\ bot' = [bot EXCEPT !.pc = "dispatch", !.inflight = 0, !.dispatched = TRUE]
  /\ UNCHANGED restG

\* The reply dispatcher calls deliver for the next reply: an empty text is
\* skipped, any other is sent and the send awaited.
BotDeliver(empty) ==
  /\ bot.pc = "dispatch"
  /\ bot.inflight = 0
  /\ bot.routerCalls < MaxReplies
  /\ bot' = IF empty
            THEN [bot EXCEPT !.routerCalls = @ + 1]
            ELSE [bot EXCEPT !.routerCalls = @ + 1, !.outbound = @ + 1, !.inflight = 1]
  /\ UNCHANGED restG

\* the send of a reply settles, with a result or an error
BotSendDone ==
  /\ bot.pc = "dispatch"
  /\ bot.inflight = 1
  /\ bot' = [bot EXCEPT !.inflight = 0]
  /\ UNCHANGED restG

\* dispatchReplyFromConfig settles, which it does when the deliveries it
\* queued are done: resolved, handleDingTalkMessage returns; rejected, its
\* catch logs and it returns as well.  The handler acks success.
BotDispatchSettled ==
  /\ bot.pc = "dispatch"
  /\ bot.inflight = 0
  /\ bot' = [bot EXCEPT !.pc = "done", !.ack = "ok"]
  /\ UNCHANGED restG

InitG == bot = IdleBot

NextBotMessage ==
  \/ \E msg \in BotMessages : BotReceive(msg)
  \/ BotMediaDone
  \/ \E empty \in BOOLEAN : BotDeliver(empty)
  \/ BotSendDone
  \/ BotDispatchSettled

\* ------------------------------------------------------------- Part H
\* dingtalkOutbound.sendText.  A target is a sequence of pieces: a prefix
\* piece, when it has one, followed by the pieces of the id.
Targets ==
  {<<"https://", "x">>, <<"chat:", "cidA">>, <<"CHAT:", "cidB">>, <<"group:", "g1">>,
   <<"cidA">>, <<"user:", "u1">>, <<"u1">>, <<"chat:">>}

UrlPrefixes == {"https://", "http://"}
UserPrefixes == {"user:", "staff:", "USER:", "STAFF:"}
GroupPrefixes == {"group:", "chat:", "GROUP:", "CHAT:"}

\* parseOutboundTarget: a URL literal is a webhook; user: and staff:, group:
\* and chat: (in any case, followed by at least one character) name a user or
\* a group; a bare id that starts with "cid" is a group, any other a user.
ParseOutboundTarget(to) ==
  IF to # <<>> /\ Head(to) \in UrlPrefixes THEN [kind |-> "webhook", id |-> to]
  ELSE IF Len(to) > 1 /\ Head(to) \in UserPrefixes THEN [kind |-> "user", id |-> Tail(to)]
  ELSE IF Len(to) > 1 /\ Head(to) \in GroupPrefixes THEN [kind |-> "group", id |-> Tail(to)]
  ELSE IF to # <<>> /\ Head(to) \in Convs THEN [kind |-> "group", id |-> to]
  ELSE [kind |-> "user", id |-> to]

\* the reply handle cached for the conversation a parsed target names
CachedHandleOf(target) ==
  IF target.kind = "group" /\ Len(target.id) = 1 /\ target.id[1] \in Convs
  THEN GetSessionWebhook(target.id[1])
  ELSE NoHook

\* the transport sendText takes: sendMessageDingTalk to the URL for a webhook
\* target, sendTextViaOpenAPI for every other
TransportOf(target) ==
  IF target.kind = "webhook" THEN "webhook" ELSE "openapi"

\* st: none, sending (the send awaited), done or threw; cached: the handle
\* cached for the target's conversation when the call was made
NoOutbound ==
  [st |-> "none", to |-> <<>>, kind |-> "none", transport |-> "none",
   cached |-> NoHook]

\* sendText({cfg, to, text}): the target is parsed; a webhook target is sent
\* to its URL; any other needs appKey and appSecret and goes to the OpenAPI.
OutboundSendText(to, configured) ==
  /\ outbound.st = "none"
  /\ LET target == ParseOutboundTarget(to)
         o == [NoOutbound EXCEPT !.to = to, !.kind = target.kind,
                                 !.cached = CachedHandleOf(target)]
     IN outbound' =
          IF TransportOf(target) = "webhook"
          THEN [o EXCEPT !.st = "sending", !.transport = "webhook"]
          ELSE IF ~configured THEN [o EXCEPT !.st = "threw"]
          ELSE [o EXCEPT !.st = "sending", !.transport = "openapi"]
  /\ UNCHANGED restH

\* the send settles: sendText returns its result or rethrows its error
OutboundDone(ok) ==
  /\ outbound.st = "sending"
  /\ outbound' = [outbound EXCEPT !.st = IF ok THEN "done" ELSE "threw"]
  /\ UNCHANGED restH

InitH == outbound = NoOutbound

\* a StreamClient that stays connected, the robot messages that fill the
\* handle cache, and one sendText call
NextOutbound ==
  \/ SCConnect
  \/ SCHandshakeOk
  \/ SCSockOpen
  \/ \E m \in FrameIds, k \in SCFrameKinds : SCReceive(m, k)
  \/ \E m \in FrameIds, ok \in BOOLEAN : SCHandlerDone(m, ok)
  \/ \E to \in Targets, configured \in BOOLEAN : OutboundSendText(to, configured)
  \/ \E ok \in BOOLEAN : OutboundDone(ok)


\* ================================================================
\* Part I: extractRichTextDownloadCodes
\* ================================================================

\* richtext.ts: const MAX_RICHTEXT_IMAGES = 10
MAX_RICHTEXT_IMAGES == 10

\* JSON values as the function sees them. A string field is a sequence, the
\* empty one being ""; NotAString is a field that is absent or not a string.
NotAString == <<-1>>
JsonNull == [t |-> "null"]
JsonString(empty) == [t |-> "str", empty |-> empty]
JsonArray(items) == [t |-> "arr", items |-> items]
JsonObject(type, downloadCode, pictureDownloadCode, richText, content) ==
  [t |-> "obj", type |-> type, downloadCode |-> downloadCode,
   pictureDownloadCode |-> pictureDownloadCode, richText |-> richText,
   content |-> content]

\* a picture node without children
Picture(downloadCode, pictureDownloadCode) ==
  JsonObject("picture", downloadCode, pictureDownloadCode, JsonNull, JsonNull)

\* JavaScript truthiness of a value, and typeof value === "object" of a
\* truthy one
Truthy(node) == node.t \in {"arr", "obj"} \/ (node.t = "str" /\ ~node.empty)
IsObject(node) == node.t \in {"arr", "obj"}

\* typeof v === "string" ? v : undefined, undefined being as falsy as ""
StringOrUndefined(v) == IF v = NotAString THEN <<>> ELSE v

\* obj.downloadCode || obj.pictureDownloadCode, strings only
CodeOf(obj) ==
  IF StringOrUndefined(obj.downloadCode) # <<>>
  THEN StringOrUndefined(obj.downloadCode)
  ELSE StringOrUndefined(obj.pictureDownloadCode)

\* a cap that lets one more code through
CapReachedLate(codes) == Len(codes) > MAX_RICHTEXT_IMAGES

\* traverse: codes.length >= MAX_RICHTEXT_IMAGES
CapReached(codes) == Len(codes) >= MAX_RICHTEXT_IMAGES

RECURSIVE Traverse(_, _)
RECURSIVE TraverseItems(_, _)

\* traverse(node), codes being the closure's array before and after: the cap
\* is tested on entry, an array is walked in order, a picture adds its own
\* code before its richText and then its content are walked
Traverse(node, codes) ==
  IF CapReached(codes) THEN codes
  ELSE IF ~Truthy(node) \/ ~IsObject(node) THEN codes
  ELSE IF node.t = "arr" THEN TraverseItems(node.items, codes)
  ELSE LET own == IF node.type = "picture" /\ CodeOf(node) # <<>>
                  THEN Append(codes, CodeOf(node))
                  ELSE codes
           afterRichText == IF Truthy(node.richText)
                            THEN Traverse(node.richText, own)
                            ELSE own
       IN IF Truthy(node.content)
          THEN Traverse(node.content, afterRichText)
          ELSE afterRichText

\* for (const item of node) traverse(item)
TraverseItems(items, codes) ==
  IF items = <<>> THEN codes
  ELSE TraverseItems(Tail(items), Traverse(Head(items), codes))

ExtractRichTextDownloadCodes(richText) ==
  IF ~Truthy(richText) \/ ~IsObject(richText) THEN <<>>
  ELSE Traverse(richText, <<>>)

\* the top-level nodes a payload is built from; b is the node's position
\* and makes every code of the payload distinct
BlockKinds == {"text", "pic", "alt", "both", "nocode", "nest5", "kids", "str"}

Block(b, kind) ==
  CASE kind = "text" ->
         JsonObject("text", NotAString, NotAString, JsonNull, JsonNull)
    [] kind = "pic" -> Picture(<<b, 1>>, NotAString)
    [] kind = "alt" -> Picture(NotAString, <<b, 1>>)
    [] kind = "both" -> Picture(<<b, 1>>, <<b, 2>>)
    [] kind = "nocode" -> Picture(<<>>, NotAString)
    [] kind = "nest5" ->
         JsonObject("paragraph", NotAString, NotAString,
                    JsonArray([i \in 1..5 |-> Picture(<<b, i>>, NotAString)]),
                    JsonNull)
    [] kind = "kids" ->
         JsonObject("picture", <<b, 1>>, NotAString,
                    JsonArray(<<Picture(<<b, 2>>, NotAString)>>),
                    JsonArray(<<Picture(NotAString, <<b, 3>>),
                                JsonString(FALSE)>>))
    [] OTHER ->
         JsonObject("text", NotAString, NotAString, JsonNull, JsonString(FALSE))

BlockLists == UNION {[1..n -> BlockKinds] : n \in 0..MaxBlocks}

\* what safeParseRichText hands over: an array of nodes, an object holding
\* the array under richText, a string, or null
Tops == {"array", "object", "string", "null"}

Payload(top, kinds) ==
  LET items == JsonArray([b \in 1..Len(kinds) |-> Block(b, kinds[b])])
  IN CASE top = "array" -> items
       [] top = "object" ->
            JsonObject("richText", NotAString, NotAString, items, JsonNull)
       [] top = "string" -> JsonString(FALSE)
       [] OTHER -> JsonNull

NoRichCall == [st |-> "idle", richText |-> JsonNull, codes |-> <<>>]

\* one call: extractRichTextDownloadCodes(parsed)
ExtractCall(top, kinds) ==
  /\ rich.st = "idle"
  /\ rich' = [st |-> "done", richText |-> Payload(top, kinds),
              codes |-> ExtractRichTextDownloadCodes(Payload(top, kinds))]
  /\ UNCHANGED restI

InitI == rich = NoRichCall

NextRichText == \E top \in Tops, kinds \in BlockLists : ExtractCall(top, kinds)


\* ------------------------------------------------------------- Part J
\* deliver(payload) of the reply dispatcher.  A reply text is a sequence of
\* pieces: a blank, plain prose, or a fenced code block.  The chunker of the
\* runtime cuts a text into chunks that follow each other in the text; here
\* the limit is one piece.
ReplyPieces == {" ", "plain", "code"}
ReplyTexts == UNION {[1..n -> ReplyPieces] : n \in 0..MaxPieces}
RenderModes == {"auto", "raw", "card"}

\* shouldUseCard: the text holds a fenced code block
ShouldUseCard(text) == \E i \in 1..Len(text) : text[i] = "code"

\* renderMode === "card" || (renderMode === "auto" && shouldUseCard(text))
UseCard(renderMode, text) ==
  renderMode = "card" \/ (renderMode = "auto" /\ ShouldUseCard(text))

\* core.channel.text.chunkTextWithMode(text, textChunkLimit, chunkMode)
ChunkTextWithMode(text) == [i \in 1..Len(text) |-> <<text[i]>>]

\* a dispatcher that decides on the card for every chunk
MsgTypePerChunk(renderMode, text, chunk) ==
  IF UseCard(renderMode, chunk) THEN "actionCard" ELSE "text"

\* the msgtype a chunk of the reply is posted with: sendActionCardDingTalk
\* under useCard, else sendMessageDingTalk
MsgType(renderMode, text, chunk) ==
  IF UseCard(renderMode, text) THEN "actionCard" ELSE "text"

\* st: idle, sending (a send is awaited), done (deliver returned), threw or
\* skipped; posts: the messages posted to the sessionWebhook, with the number
\* of sends that were in flight when the post was made.
NoDelivery ==
  [st |-> "idle", text |-> <<>>, renderMode |-> "auto", chunks |-> <<>>,
   posts |-> <<>>, inflight |-> 0]

\* the post of chunk number i
PostOf(d, i) ==
  [idx |-> i, chunk |-> d.chunks[i],
   msgtype |-> MsgType(d.renderMode, d.text, d.chunks[i]),
   inflightBefore |-> d.inflight]

\* the for loop of deliver reaches chunk number i: the chunk is posted and
\* the send awaited, or the loop is over
LoopAt(d, i) ==
  IF i > Len(d.chunks) THEN [d EXCEPT !.st = "done"]
  ELSE [d EXCEPT !.st = "sending", !.posts = Append(@, PostOf(d, i)),
                 !.inflight = @ + 1]

\* deliver(payload): an empty text is skipped, any other is cut into chunks
\* and the first chunk is sent
Deliver(text, renderMode) ==
  /\ delivery.st = "idle"
  /\ delivery' =
       IF Trim(text) = <<>>
       THEN [delivery EXCEPT !.st = "skipped", !.text = text, !.renderMode = renderMode]
       ELSE LoopAt([delivery EXCEPT !.text = text, !.renderMode = renderMode,
                                    !.chunks = ChunkTextWithMode(text)], 1)
  /\ UNCHANGED restJ

\* the send settles: sendViaWebhook returned, and the loop goes on, or it
\* threw (a non-2xx answer, an errcode, a rejected fetch) and deliver rejects
DeliverSendDone(ok) ==
  /\ delivery.st = "sending"
  /\ LET d == [delivery EXCEPT !.inflight = @ - 1]
     IN delivery' = IF ok THEN LoopAt(d, Len(d.posts) + 1)
                    ELSE [d EXCEPT !.st = "threw"]
  /\ UNCHANGED restJ

InitJ == delivery = NoDelivery

NextDeliver ==
  \/ \E text \in ReplyTexts, renderMode \in RenderModes : Deliver(text, renderMode)
  \/ \E ok \in BOOLEAN : DeliverSendDone(ok)

\* ------------------------------------------------------------- Part K
\* dingtalkOutbound.sendMedia({cfg, to, text, mediaUrl}).  A text is a
\* sequence of pieces, <<>> being an absent or empty one.
MediaTexts == {<<>>, <<" ">>, <<"hi">>, <<" ", "hi">>}

\* st: none, sending (a send awaited), done or threw; pc: which send is
\* awaited: text (the text before the media), media, fallback (the link sent
\* when the upload failed) or final; posts: what was posted to the target,
\* "text" standing for the text argument.
NoMedia ==
  [st |-> "none", pc |-> "none", kind |-> "none", text |-> <<>>,
   mediaUrl |-> FALSE, posts |-> <<>>]

\* a send of the call begins
MediaPost(m, pc, what) ==
  [m EXCEPT !.st = "sending", !.pc = pc, !.posts = Append(@, what)]

\* sendMedia after the leading text: the media is sent when there is a
\* mediaUrl.  Without one, the webhook branch sends the text, whatever was
\* sent before; the OpenAPI branch sends it only when it is blank.
AfterText(m) ==
  IF m.mediaUrl THEN MediaPost(m, "media", "media")
  ELSE IF m.kind = "webhook" THEN MediaPost(m, "final", "text")
  ELSE IF Trim(m.text) = <<>> THEN MediaPost(m, "final", "text")
  ELSE [m EXCEPT !.st = "done", !.pc = "none"]

\* sendMedia is called: the target is parsed, an OpenAPI target needs
\* appKey and appSecret, and a text that is not blank is sent first
OutboundSendMedia(to, text, mediaUrl, configured) ==
  /\ media.st = "none"
  /\ LET m == [NoMedia EXCEPT !.kind = ParseOutboundTarget(to).kind,
                              !.text = text, !.mediaUrl = mediaUrl]
     IN media' =
          IF m.kind # "webhook" /\ ~configured THEN [m EXCEPT !.st = "threw"]
          ELSE IF Trim(text) # <<>> THEN MediaPost(m, "text", "text")
          ELSE AfterText(m)
  /\ UNCHANGED restK

\* The awaited send settles.  The leading text and the last send throw out
\* of sendMedia; a failed media upload is caught and the link sent instead.
MediaSendDone(ok) ==
  /\ media.st = "sending"
  /\ media' =
       IF media.pc = "text"
       THEN IF ok THEN AfterText(media) ELSE [media EXCEPT !.st = "threw", !.pc = "none"]
       ELSE IF media.pc = "media" /\ ~ok THEN MediaPost(media, "fallback", "link")
       ELSE [media EXCEPT !.st = IF ok THEN "done" ELSE "threw", !.pc = "none"]
  /\ UNCHANGED restK

InitK == media = NoMedia

NextMedia ==
  \/ \E to \in Targets, text \in MediaTexts, mediaUrl \in BOOLEAN, configured \in BOOLEAN :
       OutboundSendMedia(to, text, mediaUrl, configured)
  \/ \E ok \in BOOLEAN : MediaSendDone(ok)

\* ------------------------------------------------ specifications
InitA ==
  /\ stopping = FALSE
  /\ ws = NoSock
  /\ keepaliveTimer = NoSock
  /\ callbackHandlerMap = {}
  /\ sockets = [s \in SockIds |-> "NEW"]
  /\ loops = [l \in LoopIds |-> IdleLoop]
  /\ frames = [m \in FrameIds |-> NoFrame]

Init == InitA /\ InitB /\ InitC /\ InitD /\ InitE /\ InitF /\ InitG /\ InitH /\ InitI /\ InitJ /\ InitK

\* connection lifecycle of DingTalkStreamClient
NextConn ==
  \/ \E l \in LoopIds : Connect(l)
  \/ Disconnect
  \/ \E l \in LoopIds : HandshakeOk(l)
  \/ \E l \in LoopIds : HandshakeFail(l)
  \/ \E s \in SockIds : SockOpen(s)
  \/ \E s \in SockIds : SockFail(s)
  \/ \E s \in SockIds : SockClosed(s)
  \/ \E s \in SockIds : ServerClose(s)
  \/ \E l \in LoopIds : SleepErrDone(l)
  \/ \E l \in LoopIds : SleepOkDone(l)

NextFrames ==
  \/ \E m \in FrameIds, s \in SockIds, k \in FrameKinds : Receive(m, s, k)
  \/ \E m \in FrameIds, ok \in BOOLEAN : HandlerDone(m, ok)

Next == NextConn \/ NextFrames

SpecConn == Init /\ [][NextConn]_vars

Spec == Init /\ [][Next]_vars

SpecSC == Init /\ [][NextSC]_vars

FairSC == SpecSC /\ FairnessSC

\* a StreamClient that connects and stays connected, the robot messages it
\* receives and the proactive sends into their conversations
NextHook ==
  \/ SCConnect
  \/ SCHandshakeOk
  \/ SCSockOpen
  \/ SCPollTick
  \/ \E m \in FrameIds, k \in SCFrameKinds : SCReceive(m, k)
  \/ \E m \in FrameIds, ok \in BOOLEAN : SCHandlerDone(m, ok)
  \/ NextSend

SpecHook == Init /\ [][NextHook]_vars

\* a DingTalkStreamClient that connects and stays connected, with a second
\* callback topic registered, and the frames it routes
NextRoute ==
  \/ \E l \in LoopIds : Connect(l)
  \/ RegisterCallbackListener(TOPIC_OTHER)
  \/ \E l \in LoopIds : HandshakeOk(l)
  \/ \E s \in SockIds : SockOpen(s)
  \/ NextFrames

SpecRoute == Init /\ [][NextRoute]_vars

\* A process runs one of the two monitors: monitorStream with its
\* DingTalkStreamClient, or monitorDingtalkStreamProvider with its
\* StreamClient.
StreamClientUnused == scConnect = "idle"
DingTalkStreamClientUnused ==
  (\A l \in LoopIds : loops[l].pc = "idle") /\ callbackHandlerMap = {}
NextBot ==
  \/ StreamClientUnused /\ \E l \in LoopIds : Connect(l)
  \/ StreamClientUnused /\ RegisterCallbackListener(TOPIC_OTHER)
  \/ StreamClientUnused /\ \E l \in LoopIds : HandshakeOk(l)
  \/ StreamClientUnused /\ \E s \in SockIds : SockOpen(s)
  \/ StreamClientUnused /\ \E m \in FrameIds, s \in SockIds, k \in FrameKinds : Receive(m, s, k)
  \/ StreamClientUnused /\ \E m \in FrameIds, ok \in BOOLEAN : HandlerDone(m, ok)
  \/ DingTalkStreamClientUnused /\ SCConnect
  \/ DingTalkStreamClientUnused /\ SCHandshakeOk
  \/ DingTalkStreamClientUnused /\ SCSockOpen
  \/ DingTalkStreamClientUnused /\ \E m \in FrameIds, k \in SCFrameKinds : SCReceive(m, k)
  \/ DingTalkStreamClientUnused /\ \E m \in FrameIds, ok \in BOOLEAN : SCHandlerDone(m, ok)

SpecBot == Init /\ [][NextBot]_vars

SpecMonitor == Init /\ [][NextMonitor]_vars

SpecBotMessage == Init /\ [][NextBotMessage]_vars

SpecOutbound == Init /\ [][NextOutbound]_vars

SpecBackoff == Init /\ [][NextBackoff]_vars

SpecRichText == Init /\ [][NextRichText]_vars

SpecDeliver == Init /\ [][NextDeliver]_vars

SpecMedia == Init /\ [][NextMedia]_vars

SpecTok == Init /\ [][NextTok]_vars

SpecSess == Init /\ [][NextSess]_vars

SpecExpiry == Init /\ [][NextExpiry]_vars

SpecReplier == Init /\ [][NextReplier]_vars

SpecHandler == Init /\ [][NextHandler]_vars

\* ------------------------------------------------ claims
Running(l) == loops[l].pc \notin {"idle", "exited"}
RegisteredCallback(f) == f.kind.type = "CALLBACK" /\ f.kind.topic \in callbackHandlerMap

\* C1: every inbound frame with a non-empty messageId is answered with
\* exactly one ack frame, and for a CALLBACK frame whose topic has a handler
\* that ack is written by the handler, never by the router.
C1_ExactlyOneAck ==
  \A m \in FrameIds :
    (frames[m].st = "done" /\ frames[m].kind.mid) =>
      /\ Len(frames[m].acks) = 1
      /\ RegisteredCallback(frames[m]) => frames[m].acks[1].by = "handler"

\* C2: a CALLBACK frame with a non-empty messageId whose topic has no
\* handler is acked with code 200 exactly once by the router, and no handler
\* is invoked for it.
C2_UnknownTopicAcked ==
  \A m \in FrameIds :
    (/\ frames[m].st = "done"
     /\ frames[m].kind.type = "CALLBACK"
     /\ frames[m].kind.mid
     /\ frames[m].kind.topic \notin callbackHandlerMap) =>
      /\ ~frames[m].invoked
      /\ Len(frames[m].acks) = 1
      /\ frames[m].acks[1].code = STATUS_OK
      /\ frames[m].acks[1].by = "router"

\* C3: while the stop flag stays set (disconnect() was called and connect()
\* was not called again) no handshake request is started and no WebSocket is
\* constructed, and a further disconnect() changes nothing.
C3_NoConnectAfterDisconnect ==
  [][(stopping /\ stopping') =>
       /\ \A l \in LoopIds : loops'[l].pc = "handshake" => loops[l].pc = "handshake"
       /\ \A s \in SockIds : sockets[s] = "NEW" => sockets'[s] = "NEW"]_vars

\* C4: once disconnect() was called, the reconnect loop eventually exits
\* (or connect() is called again), given that timers fire and pending I/O
\* completes.
C4_StopTerminates ==
  [](stopping => <>(~stopping \/ \A l \in LoopIds : ~Running(l)))

\* C5: at every moment at most one WebSocket is open or being opened and at
\* most one reconnect loop is running.
C5_OneConnection ==
  /\ Cardinality({s \in SockIds : sockets[s] \in {"CONNECTING", "OPEN"}}) <= 1
  /\ Cardinality({l \in LoopIds : Running(l)}) <= 1

\* Timers fire and pending I/O completes: a handshake request is answered, a
\* connecting socket opens or fails, a closing socket closes, a sleep expires.
\* Nothing obliges the gateway to close an open socket.
FairnessConn ==
  /\ \A l \in LoopIds : WF_vars(HandshakeOk(l) \/ HandshakeFail(l))
  /\ \A s \in SockIds : WF_vars(SockOpen(s) \/ SockFail(s))
  /\ \A s \in SockIds : WF_vars(SockClosed(s))
  /\ \A l \in LoopIds : WF_vars(SleepErrDone(l))
  /\ \A l \in LoopIds : WF_vars(SleepOkDone(l))

FairConn == SpecConn /\ FairnessConn

\* C6: whenever the socket closes or a handshake or WebSocket open fails
\* while no stop was requested, a new handshake attempt is eventually started
\* (or a stop is requested), and no such failure leaves connect().
SCDown == scConnect = "rejected" \/ scLoop = "backoff" \/ scWs = "CLOSED"
SCHandshaking == scConnect = "handshake" \/ scLoop = "handshake"
C6_AlwaysRetries ==
  /\ [](scConnect = "rejected" => scStopping)
  /\ []((SCDown /\ ~scStopping) => <>(SCHandshaking \/ scStopping))

Returned(c) == calls[c].st = "returned" /\ calls[c].got # "none"

\* C7: every token getAccessToken returns has, at the moment of return, at
\* least the 5-minute margin of validity left on the server.
C7_TokenFresh ==
  \A c \in CallIds : Returned(c) => calls[c].left >= STREAM_BUFFER

\* C8: the first getAccessToken call after the cache was cleared performs
\* exactly one exchange request before it returns or throws.
C8_ClearForcesExchange ==
  \A c \in CallIds :
    (calls[c].afterClear /\ calls[c].st \in {"returned", "threw"}) => calls[c].exch = 1

\* C9: at most one token exchange request is in flight per cache and
\* credential at any time.
C9_SingleFlight ==
  \A impl \in Impls, cr \in Creds :
    Cardinality({c \in CallIds : /\ calls[c].st = "fetching"
                                 /\ calls[c].impl = impl
                                 /\ calls[c].cred = cr}) <= 1

\* C10: a getAccessToken call made with one credential never returns a
\* token that an exchange with another credential obtained.
C10_KeyedByCredential ==
  \A c \in CallIds : Returned(c) => calls[c].got = calls[c].cred

\* C11: when the exchange answers non-2xx, or with a body that lacks the
\* token or the expiry, the call throws after its one exchange request,
\* returns no token, and the caches stay as they were.
C11_ExchangeFailureThrows ==
  [][\A c \in CallIds, o \in {"http_error", "no_token", "no_expiry"}, ei \in ExpireIns :
       ExchangeDone(c, o, ei) =>
         /\ calls'[c].st = "threw"
         /\ calls'[c].exch = 1
         /\ calls'[c].got = "none"
         /\ UNCHANGED <<streamToken, cardToken, sessionTokens>>]_vars

\* C12: a proactive send POSTs to the reply handle of the newest robot
\* message its conversation had received when the send was issued, never to
\* an older one.
C12_NewestHandleUsed ==
  \A i \in SendIds : sends[i].posted # NoHook => sends[i].posted = sends[i].latest

\* C13: a proactive send into a conversation for which no reply handle was
\* recorded (or none was ever received) returns {ok:false, error} without
\* throwing and without any HTTP request, and leaves the handle cache as it
\* was.
C13_NoHandleNoSend ==
  /\ [](\A i \in SendIds :
          (sends[i].st # "none" /\ (sends[i].hook = NoHook \/ sends[i].latest = NoHook)) =>
            /\ sends[i].st = "done"
            /\ sends[i].result = "fail"
            /\ sends[i].http = 0
            /\ sends[i].posted = NoHook)
  /\ [][\A i \in SendIds, cv \in Convs :
          SendToConversation(i, cv) => UNCHANGED sessionWebhook]_vars

\* a send into cidB was refused while cidA had a recorded handle
C13_Witness ==
  \E i \in SendIds :
    /\ sends[i].st = "done"
    /\ sends[i].conv = "cidB"
    /\ sends[i].hook = NoHook
    /\ sends[i].result = "fail"
    /\ sessionWebhook["cidA"] # NoHook

\* C21: when a handler registered for a topic other than the robot topic
\* throws, the frame (non-empty messageId, socket open) is answered with a
\* failure ack of code 500.
C21_ThrowAnsweredWithFailure ==
  [][\A m \in FrameIds :
       (/\ frames[m].kind.topic # TOPIC_ROBOT
        /\ frames[m].kind.mid
        /\ SendJsonWrites(ws, sockets)
        /\ HandlerDone(m, FALSE))
       => \E i \in 1..Len(frames'[m].acks) :
            frames'[m].acks[i].code = STATUS_SYSTEM_EXCEPTION]_vars

\* C22: an invocation of the bot-message handler for a frame with a
\* non-empty messageId that ends while the client's socket is open has written
\* exactly one ack: code 200 when handling returned (dropped and empty messages
\* included), code 500 when parsing the payload or handling threw; never both.
OneAck(acks, code) ==
  /\ Len(acks) = 1
  /\ acks[1].code = code
  /\ acks[1].by = "handler"
BotFrame(f) == f.kind.type = "CALLBACK" /\ f.kind.topic = TOPIC_ROBOT /\ f.kind.mid
C22_BotHandlerAcksOnce ==
  /\ [][\A m \in FrameIds :
         (BotFrame(frames'[m]) /\ SendJsonWrites(ws, sockets)) =>
           /\ HandlerDone(m, TRUE) => OneAck(frames'[m].acks, STATUS_OK)
           /\ HandlerDone(m, FALSE) => OneAck(frames'[m].acks, STATUS_SYSTEM_EXCEPTION)
           /\ (frames[m].st = "none" /\ frames'[m].st = "done" /\ frames'[m].invoked)
                => OneAck(frames'[m].acks, STATUS_SYSTEM_EXCEPTION)]_vars
  /\ [][\A m \in FrameIds :
         (BotFrame(scFrames'[m]) /\ scWs = "OPEN") =>
           /\ SCHandlerDone(m, TRUE) => OneAck(scFrames'[m].acks, STATUS_OK)
           /\ SCHandlerDone(m, FALSE) => OneAck(scFrames'[m].acks, STATUS_SYSTEM_EXCEPTION)
           /\ (scFrames[m].st = "none" /\ scFrames'[m].st = "done" /\ scFrames'[m].invoked)
                => OneAck(scFrames'[m].acks,
                          IF scFrames'[m].kind.payload = "badjson"
                          THEN STATUS_SYSTEM_EXCEPTION ELSE STATUS_OK)]_vars
C22_Witness ==
  \E m \in FrameIds :
    /\ frames[m].st = "done"
    /\ BotFrame(frames[m])
    /\ frames[m].kind.dataJson
    /\ frames[m].invoked
    /\ OneAck(frames[m].acks, STATUS_SYSTEM_EXCEPTION)

\* C23: on one connection at most one handler invocation is in progress: the
\* handler of a frame is not started before the handler of the frame received
\* before it has completed.
C23_OneHandlerPerConnection ==
  \A s \in SockIds :
    Cardinality({m \in FrameIds : frames[m].st = "handling" /\ frames[m].sock = s}) <= 1

\* C24: the message event of a SYSTEM frame with topic "disconnect" closes
\* the client's current socket and invokes no callback handler.
DisconnectFrame(f) == f.kind.type = "SYSTEM" /\ f.kind.topic = TOPIC_DISCONNECT
StreamClosesOnDisconnect ==
  \A m \in FrameIds :
    (frames[m].st = "none" /\ frames'[m].st # "none" /\ DisconnectFrame(frames'[m])) =>
      /\ ~frames'[m].invoked
      /\ ws # NoSock => sockets'[ws] \notin {"CONNECTING", "OPEN"}
SCClosesOnDisconnect ==
  \A m \in FrameIds :
    (scFrames[m].st = "none" /\ scFrames'[m].st # "none" /\ DisconnectFrame(scFrames'[m])) =>
      /\ ~scFrames'[m].invoked
      /\ scWs' \notin {"CONNECTING", "OPEN"}
C24_DisconnectClosesSocket ==
  [][StreamClosesOnDisconnect /\ SCClosesOnDisconnect]_vars

\* C25: a raw message that is not valid JSON is dropped: no ack is written
\* and no handler is invoked for it, and its message event changes nothing
\* else: the sockets, the client's fields and the other frames stay as they
\* are, so the connection stays open and later frames are routed as before.
C25_UnparsedDropped ==
  /\ [](\A m \in FrameIds :
         /\ (frames[m].st # "none" /\ ~frames[m].kind.json) =>
              (frames[m].st = "done" /\ ~frames[m].invoked /\ frames[m].acks = <<>>)
         /\ (scFrames[m].st # "none" /\ ~scFrames[m].kind.json) =>
              (scFrames[m].st = "done" /\ ~scFrames[m].invoked /\ scFrames[m].acks = <<>>))
  /\ [][\A m \in FrameIds :
         /\ (frames[m].st = "none" /\ frames'[m].st # "none" /\ ~frames'[m].kind.json) =>
              /\ UNCHANGED <<stopping, ws, keepaliveTimer, callbackHandlerMap, sockets, loops>>
              /\ \A j \in FrameIds \ {m} : frames'[j] = frames[j]
         /\ (scFrames[m].st = "none" /\ scFrames'[m].st # "none" /\ ~scFrames'[m].kind.json) =>
              /\ UNCHANGED <<scStopping, scWs, reconnectDelayMs, scConnect, scLoop,
                             sessionWebhook>>
              /\ \A j \in FrameIds \ {m} : scFrames'[j] = scFrames[j]]_vars
\* a frame is routed and acked after a raw message that was no JSON
C25_Witness ==
  \E m, j \in FrameIds :
    /\ m < j
    /\ frames[m].st = "done" /\ ~frames[m].kind.json
    /\ sockets[frames[m].sock] = "OPEN"
    /\ frames[j].st = "done" /\ frames[j].kind.json
    /\ frames[j].sock = frames[m].sock
    /\ Len(frames[j].acks) = 1

\* C26: when the abort event of a monitor session has been handled, its
\* promise is resolved, its stream client has the stop flag set by
\* disconnect(), and the sweep interval the session scheduled is no longer
\* scheduled.
C26_AbortCleansUp ==
  [][\A i \in MonIds :
       (monitors[i].st # "resolved" /\ monitors'[i].st = "resolved") =>
         /\ clientStopping'[monitors'[i].client]
         /\ monitors'[i].timer \notin timers']_vars

\* C27: a group message whose groupPolicy is "disabled", or "allowlist" with
\* a sender that matches no entry of the applicable allow list, is dropped
\* before dispatch: the agent dispatcher and the reply router are never
\* invoked and no outbound call is made for it.
EntryMatches(entry, msg) ==
  LET e == ToLowerCase(Trim(entry))
  IN \/ e = <<"*">>
     \/ e = ToLowerCase(msg.senderId)
     \/ e # <<>> /\ e = ToLowerCase(msg.senderNick)
Rejected(msg) ==
  /\ msg.isGroup
  /\ \/ msg.policy = "disabled"
     \/ /\ msg.policy = "allowlist"
        /\ \A i \in 1..Len(SenderAllowFrom(msg)) : ~EntryMatches(SenderAllowFrom(msg)[i], msg)
C27_RejectedGroupMessageDropped ==
  (bot.pc # "idle" /\ ~bot.msg.bad /\ Rejected(bot.msg)) =>
    /\ ~bot.dispatched
    /\ bot.routerCalls = 0
    /\ bot.outbound = 0
C27_Witness ==
  /\ bot.pc = "done"
  /\ ~bot.msg.bad
  /\ bot.msg.policy = "allowlist"
  /\ bot.msg.media
  /\ Len(SenderAllowFrom(bot.msg)) > 0
  /\ Rejected(bot.msg)
  /\ bot.ack = "ok"

\* C28: sendText takes the cached-handle transport (a POST to the reply URL)
\* when the target is a webhook URL or a reply handle is cached for the
\* target's conversation id, and the OpenAPI push only otherwise.
C28_CachedHandlePreferred ==
  outbound.transport # "none" =>
    (outbound.transport = "webhook"
       <=> (outbound.kind = "webhook" \/ outbound.cached # NoHook))

RECURSIVE DocumentCodes(_)
RECURSIVE DocumentCodesOf(_)

\* the codes of all picture nodes of a structure, in the order the nodes
\* stand in it, with no cap
DocumentCodes(node) ==
  IF node.t = "arr" THEN DocumentCodesOf(node.items)
  ELSE IF node.t # "obj" THEN <<>>
  ELSE (IF node.type = "picture" /\ CodeOf(node) # <<>>
        THEN <<CodeOf(node)>> ELSE <<>>)
       \o DocumentCodes(node.richText) \o DocumentCodes(node.content)

DocumentCodesOf(items) ==
  IF items = <<>> THEN <<>>
  ELSE DocumentCodes(Head(items)) \o DocumentCodesOf(Tail(items))

\* C29: extractRichTextDownloadCodes returns the download codes of the
\* picture nodes in document order, cut to the first 10: never more than 10
\* codes, and exactly 10 for a structure holding 15 picture nodes.
C29_FirstTenCodes ==
  rich.st = "done" =>
    LET all == DocumentCodes(rich.richText)
    IN /\ Len(rich.codes) <= 10
       /\ rich.codes = SubSeq(all, 1, IF Len(all) < 10 THEN Len(all) ELSE 10)
       /\ Len(all) = 15 => Len(rich.codes) = 10

C29_Witness ==
  /\ rich.st = "done"
  /\ Len(DocumentCodes(rich.richText)) = 15
  /\ Len(rich.codes) = 10

C19_ForcedKeyIsNew ==
  \A n \in 1..Len(keyCalls) :
    (keyCalls[n].forceNew /\ keyCalls[n].before # <<>>) =>
      keyCalls[n].sessionKey # keyCalls[n].before

\* how far a flowStatus is along none -> input-in-progress -> finished / failed
Rank(s) == IF s = INPUTING THEN 1 ELSE 2
Forward(seq) ==
  /\ \A i, j \in 1..Len(seq) : i < j => Rank(seq[i]) <= Rank(seq[j])
  /\ ~(\E i, j \in 1..Len(seq) : seq[i] = FINISHED /\ seq[j] = FAILED)

\* C14: the flowStatus values sent for one card only move forward, through
\* input-in-progress to finished or to failed, and finished and failed are
\* never both sent for it.
C14_StatusMovesForward == Forward(handler.statuses) /\ Forward(replier.statuses)

\* C15: on a replier whose start() has not returned a card, a streaming,
\* finish or fail call only warns: no request, no throw, no call begun, and
\* the replier stays without a card.
C15_NoCardNoCall ==
  [][\A op \in {"streaming", "finish", "fail"} :
       (ROp(op) /\ ~replier.gotCard) =>
         /\ replier'.warns = replier.warns + 1
         /\ replier'.http = replier.http
         /\ replier'.call = replier.call
         /\ replier'.statuses = replier.statuses
         /\ replier'.threw = replier.threw
         /\ replier'.card = NoCard]_vars

\* a call was refused on a replier whose start() had failed
C15_Witness ==
  /\ replier.warns > 0
  /\ replier.creating.pc = "done"
  /\ replier.creating.result = "null"
  /\ ~replier.gotCard

\* what C16 asks of one createAICard call
CreateContract(cc) ==
  /\ cc.result # "threw"
  /\ cc.pc = "done" => cc.result \in {"null", "card"}
  /\ (cc.pc = "done" /\ (cc.tokenO # "ok" \/ cc.createO # "ok" \/ cc.deliverO # "ok"))
       => cc.result = "null"
  /\ cc.createO \notin {"none", "ok"} => (cc.pc # "deliver" /\ cc.deliverO = "none")
  /\ cc.result = "card" =>
       /\ cc.createO = "ok" /\ cc.deliverO = "ok"
       /\ CardOf(cc).exists /\ ~CardOf(cc).inputingStarted

C17_FallbackSendsOnce ==
  (/\ handler.result # "none"
   /\ handler.creating.createO = "status"
   /\ handler.gwOk
   /\ handler.chunks > 0) =>
     /\ handler.outSends = <<"response">>
     /\ handler.cardHttp = 0

\* C18: when a push or finish call failed during card streaming, the card
\* is marked failed and the error reaches the caller of the handler.
C18_MidStreamFailureSurfaces ==
  (handler.midErr /\ handler.result # "none") =>
     /\ \E i \in 1..Len(handler.statuses) : handler.statuses[i] = FAILED
     /\ handler.result = "threw"

\* the text is one reset literal, in any case, with blanks around it at most
IsResetText(text) ==
  \E i \in 1..Len(text) :
    /\ text[i] \in {"/new", "/NEW"}
    /\ \A j \in 1..Len(text) : j # i => text[j] = " "

\* C20: a text that equals a reset literal after trimming and case folding
\* gets exactly one confirmation message, no gateway request and no card; a
\* text that only contains a literal gets no confirmation.
C20_ResetOnlyConfirms ==
  handler.pc # "idle" =>
    IF IsResetText(handler.text)
    THEN /\ handler.outSends = <<"confirm">>
         /\ handler.gateway = 0
         /\ handler.creating = IdleCreate
         /\ handler.cardHttp = 0
    ELSE \A i \in 1..Len(handler.outSends) : handler.outSends[i] # "confirm"

\* a padded upper-case reset command was confirmed
C20_Witness ==
  /\ handler.result = "returned"
  /\ handler.text = <<" ", "/NEW">>
  /\ handler.outSends = <<"confirm">>

\* C31: for one card instance of the replier, no streaming content update
\* is sent before an INPUTING switch of the instance was answered 2xx, and
\* after that answer no further INPUTING switch is sent for it.
C31_InputingOnceBeforeStreaming ==
  \A i \in 1..Len(replier.reqs) :
    /\ replier.reqs[i].kind = "streaming" =>
         (replier.inputOkAt # 0 /\ i > replier.inputOkAt)
    /\ replier.reqs[i].kind = "inputing" =>
         (replier.inputOkAt = 0 \/ i <= replier.inputOkAt)

\* a first INPUTING switch failed, a later one succeeded, and two content
\* updates followed
C31_Witness ==
  /\ Len(replier.reqs) >= 4
  /\ replier.reqs[1].kind = "inputing"
  /\ replier.reqs[2].kind = "inputing"
  /\ replier.inputOkAt = 2
  /\ replier.reqs[3].kind = "streaming"
  /\ replier.reqs[4].kind = "streaming"

\* C32: within one run of the handler any two consecutive push calls for
\* the card, the final push made by finishAICard included, begin at least
\* 300 ms apart.
C32_PushesThrottled ==
  \A i \in 1..Len(handler.gaps) : handler.gaps[i] >= 300

\* C37: once a streaming PUT with isFinalize = true was answered 2xx, the
\* handler sends no further streaming content update for the card.
C37_NoStreamingAfterFinalize ==
  handler.finOkAt # 0 =>
    \A i \in 1..Len(handler.reqs) :
      i > handler.finOkAt => handler.reqs[i].kind # "streaming"

\* the chunks 1..n in arrival order
Concatenation(n) == [i \in 1..n |-> i]

\* C38: in card mode, when the gateway stream ended normally, the content
\* handed to finishAICard is the concatenation of all chunks in arrival
\* order (with the error note after it when the first finishAICard threw),
\* and every incremental push carried a non-empty prefix of it.
C38_FinalizedIsConcatenation ==
  (handler.gwOk /\ handler.card.exists) =>
    /\ handler.finalized # <<>>
    /\ \A j \in 1..Len(handler.finalized) :
         /\ Len(handler.finalized[j]) >= handler.chunks
         /\ SubSeq(handler.finalized[j], 1, handler.chunks) = Concatenation(handler.chunks)
    /\ handler.finalized[1] = Concatenation(handler.chunks)
    /\ \A j \in 1..Len(handler.pushes) :
         \E k \in 1..handler.chunks : handler.pushes[j] = Concatenation(k)

\* two chunks arrived, the throttle skipped the push of the second, and the
\* card was finished with both
C38_Witness ==
  /\ handler.result = "returned"
  /\ handler.gwOk
  /\ handler.chunks = 2
  /\ handler.pushes = <<<<1>>>>
  /\ handler.finalized = <<<<1, 2>>>>
  /\ handler.finOkAt # 0

\* C34: the reconnect delay of StreamClient stays within [3000, 30000] ms.
\* It is 3000 until the loop runs, a failed reconnect attempt doubles it up
\* to the cap of 30000 once its backoff timer has fired, a successful
\* reconnect sets it back to 3000, and nothing else changes it.
C34_DelayBounded ==
  /\ [](/\ reconnectDelayMs \in 3000..30000
        /\ scLoop = "idle" => reconnectDelayMs = 3000)
  /\ [][/\ (scLoop = "backoff" /\ scLoop' # "backoff") =>
             reconnectDelayMs' = IF reconnectDelayMs * 2 > 30000 THEN 30000
                                 ELSE reconnectDelayMs * 2
        /\ (scLoop = "opening" /\ scLoop' = "poll") => reconnectDelayMs' = 3000
        /\ reconnectDelayMs' # reconnectDelayMs =>
             \/ scLoop = "backoff" /\ scLoop' # "backoff"
             \/ scLoop = "opening" /\ scLoop' = "poll"]_vars

\* the cap was reached by an attempt made at 24000 ms
C34_Witness ==
  /\ reconnectDelayMs = 30000
  /\ scLoop = "poll"
  /\ scWs = "CLOSED"

\* C33: the chunks of one reply are posted one after another in chunk
\* order, each post made when no other send of the reply is in flight, all
\* with one msgtype; the posts always form a prefix of the chunk list, the
\* whole list when deliver returned.
C33_ChunksInOrder ==
  /\ Len(delivery.posts) <= Len(delivery.text)
  /\ \A i \in 1..Len(delivery.posts) :
       /\ delivery.posts[i].idx = i
       /\ delivery.posts[i].chunk = <<delivery.text[i]>>
       /\ delivery.posts[i].inflightBefore = 0
       /\ delivery.posts[i].msgtype = delivery.posts[1].msgtype
  /\ delivery.st = "done" => Len(delivery.posts) = Len(delivery.text)

\* in auto mode a reply of prose, code and prose went out as cards, and the
\* third send failed
C33_Witness ==
  /\ delivery.st = "threw"
  /\ delivery.renderMode = "auto"
  /\ delivery.text = <<"plain", "code", "plain">>
  /\ Len(delivery.posts) = 3
  /\ delivery.posts[1].msgtype = "actionCard"

\* C40: one sendMedia call posts its text at most once to the target.
C40_TextPostedOnce ==
  Cardinality({i \in 1..Len(media.posts) : media.posts[i] = "text"}) <= 1

\* C35: every ack written for a frame goes to the socket the frame was
\* received on, also when the handler settles after a reconnect replaced
\* the socket.
C35_AckOnReceivingSocket ==
  \A m \in FrameIds :
    \A i \in 1..Len(frames[m].acks) : frames[m].acks[i].sock = frames[m].sock

\* the getSessionKey calls made for the sender of call j before it
EarlierCalls(j) == {i \in 1..(j - 1) : keyCalls[i].id = keyCalls[j].id}

\* the last of them, whose Date.now() is the session's last activity
LastCall(j) == CHOOSE i \in EarlierCalls(j) : \A k \in EarlierCalls(j) : k <= i

\* C36: a getSessionKey call made more than sessionTimeout after the
\* sender's last activity returns a key that no earlier call for the sender
\* returned, whether or not cleanupExpiredSessions ran in between.
C36_TimedOutSessionGetsFreshKey ==
  \A j \in 1..Len(keyCalls) :
    (/\ EarlierCalls(j) # {}
     /\ keyCalls[j].at - keyCalls[LastCall(j)].at > DEFAULT_SESSION_TIMEOUT) =>
      \A i \in EarlierCalls(j) : keyCalls[i].sessionKey # keyCalls[j].sessionKey

====
